---- MODULE Spec2Model ----
(***************************************************************************)
(* Model of the CV-processing serverless handlers of ai-cv-analyzer        *)
(* (api/processCV.js and its iterations): the in-memory rate limiter      *)
(* SecurityUtils.applyRateLimit and the request pipelines built around it. *)
(***************************************************************************)
EXTENDS Integers, Sequences, FiniteSets, TLC

VARIABLES
    now,             \* Date.now(), in milliseconds
    rateLimitStore,  \* the module-level Map: client key -> {count, timestamp, blockedUntil}
    last,            \* observation of the most recent call of the limiter
    winReqs,         \* per key: requests made since the start of the key's current window
    blockedTill,     \* per key: the latest blockedUntil ever set for the key (0: never)
    lastReqAt,       \* per key: the time of the key's latest request (-1: none yet)
    solo,            \* per key: the store the key would see had no other key ever called
    rejections,      \* per key: the "currently blocked" rejections of the pending block
    variant,         \* which iteration of api/processCV.js is deployed
    env,             \* process.env: is the API credential set
    reqs,            \* the requests handled by the deployed handler
    model,           \* the module-level variable model: the request that assigned it
    pure             \* a payload and what each input validator has returned for it

limiterVars ==
    <<now, rateLimitStore, last, winReqs, blockedTill, lastReqAt, solo, rejections>>

handlerVars == <<variant, env, reqs, model>>

vars == <<limiterVars, handlerVars, pure>>

----------------------------------------------------------------------------
(* RATE_LIMIT_CONFIG and the literals of applyRateLimit *)

MAX_REQUESTS_PER_MINUTE == 3
WINDOW_MS == 60000
MAX_RETRIES == 2
RETRY_DELAY_MS == 30000
BLOCK_MS == 300000

(* The most requests one key makes inside one window of the model. *)
MaxPerWindow == 6

(* The instants at which the clock is read: the boundaries of the window    *)
(* (WINDOW_MS - 1, WINDOW_MS, WINDOW_MS + 1), of the block (BLOCK_MS - 1,   *)
(* BLOCK_MS) and of one reported second (1, 1000), for a window and a block *)
(* that start at 0 or 1.                                                    *)
Times == {0, 1, 1000, 60000, 60001, 299999, 300000}

(* No validator is under observation. *)
NoValidation == [payload |-> "none", verdict |-> <<>>]

None == "none"

(* The header values of a request that the client key is derived from. *)
IpValues == {None, "10.0.0.1"}
HeaderSets == [xff : IpValues, xri : IpValues]

(* clientIP = headers['x-forwarded-for'] || headers['x-real-ip'] || 'unknown' *)
ClientIP(headers) ==
    IF headers.xff # None THEN headers.xff
    ELSE IF headers.xri # None THEN headers.xri
    ELSE "unknown"

ClientKeys == {ClientIP(h) : h \in HeaderSets}

----------------------------------------------------------------------------
(* Errors: the kind stands for the literal message text, secs for the       *)
(* number interpolated into it.                                              *)

NoError == [kind |-> "none", secs |-> 0]

MkError(kind) == [kind |-> kind, secs |-> 0]

(* `Rate limit exceeded. Please try again in ${remainingTime} seconds.` *)
RateLimitWait(secs) == [kind |-> "RateLimitWait", secs |-> secs]

(* 'Too many requests. Please wait 5 minutes before trying again.' *)
TooManyRequests == MkError("TooManyRequests")

(* Does the decimal numeral of n contain the numeral of p (p of 3 digits)? *)
RECURSIVE DigitsInclude(_, _)
DigitsInclude(n, p) ==
    IF n < 100 THEN FALSE
    ELSE IF n % 1000 = p THEN TRUE
    ELSE DigitsInclude(n \div 10, p)

(* Math.ceil(ms / 1000) *)
CeilSeconds(ms) ==
    IF ms % 1000 = 0 THEN ms \div 1000 ELSE (ms \div 1000) + 1

(* Math.floor(ms / 1000): the off-by-rounding variant of CeilSeconds *)
FloorSeconds(ms) == ms \div 1000

(* remainingTime rounded down instead of up. *)
RemainingTimeFloor(clientData, t) == FloorSeconds(clientData.blockedUntil - t)

RemainingTime(clientData, t) == CeilSeconds(clientData.blockedUntil - t)

----------------------------------------------------------------------------
(* SecurityUtils.applyRateLimit *)

FreshClientData(t) == [count |-> 0, timestamp |-> t, blockedUntil |-> 0]

(* A store that is emptied as soon as it holds more than one client. *)
CleanWhenCrowded(store, t) ==
    LET windowStart == t - WINDOW_MS
        kept == {k \in DOMAIN store : ~(store[k].timestamp < windowStart)}
    IN IF Cardinality(DOMAIN store) > 1
       THEN [k \in {} |-> FreshClientData(t)]
       ELSE [k \in kept |-> store[k]]

(* An eviction pass that also deletes the entries whose window ends now. *)
CleanOldEntriesInclusive(store, t) ==
    LET windowStart == t - WINDOW_MS
        kept == {k \in DOMAIN store : ~(store[k].timestamp <= windowStart)}
    IN [k \in kept |-> store[k]]

(* for (const [key, data] of rateLimitStore.entries())                      *)
(*   if (data.timestamp < windowStart) rateLimitStore.delete(key)           *)
CleanOldEntries(store, t) ==
    LET windowStart == t - WINDOW_MS
        kept == {k \in DOMAIN store : ~(store[k].timestamp < windowStart)}
    IN [k \in kept |-> store[k]]

IsBlocked(clientData, t) == clientData.blockedUntil > t

WindowExpired(clientData, t) == clientData.timestamp < t - WINDOW_MS

(* The ceiling compared with >= instead of >. *)
ExceedsLimitOffByOne(count) == count >= MAX_REQUESTS_PER_MINUTE

ExceedsLimit(count) == count > MAX_REQUESTS_PER_MINUTE

(* A store that keeps the entry a key already has: the update is lost. *)
SetEntryStale(store, ip, data) ==
    [k \in DOMAIN store \cup {ip} |-> IF k = ip /\ k \notin DOMAIN store THEN data ELSE store[k]]

SetEntry(store, ip, data) ==
    [k \in DOMAIN store \cup {ip} |-> IF k = ip THEN data ELSE store[k]]

(* A limiter whose blocked rejection starts the block anew. *)
ApplyRateLimitExtendingBlock(store, ip, t) ==
    LET cleaned == CleanOldEntries(store, t)
        clientData == IF ip \in DOMAIN cleaned THEN cleaned[ip] ELSE FreshClientData(t)
    IN IF IsBlocked(clientData, t)
       THEN [store |-> SetEntry(cleaned, ip, [clientData EXCEPT !.blockedUntil = t + BLOCK_MS]),
             error |-> RateLimitWait(RemainingTime(clientData, t))]
       ELSE LET counted ==
                    IF WindowExpired(clientData, t)
                    THEN [clientData EXCEPT !.count = 1, !.timestamp = t]
                    ELSE [clientData EXCEPT !.count = clientData.count + 1]
            IN IF ExceedsLimit(counted.count)
               THEN [store |-> SetEntry(cleaned, ip,
                                  [counted EXCEPT !.blockedUntil = t + BLOCK_MS]),
                     error |-> TooManyRequests]
               ELSE [store |-> SetEntry(cleaned, ip, counted), error |-> NoError]

(* A limiter that counts the request it rejects during a block. *)
ApplyRateLimitCountingBlocked(store, ip, t) ==
    LET cleaned == CleanOldEntries(store, t)
        clientData == IF ip \in DOMAIN cleaned THEN cleaned[ip] ELSE FreshClientData(t)
    IN IF IsBlocked(clientData, t)
       THEN [store |-> SetEntry(cleaned, ip, [clientData EXCEPT !.count = @ + 1]),
             error |-> RateLimitWait(RemainingTime(clientData, t))]
       ELSE LET counted ==
                    IF WindowExpired(clientData, t)
                    THEN [clientData EXCEPT !.count = 1, !.timestamp = t]
                    ELSE [clientData EXCEPT !.count = clientData.count + 1]
            IN IF ExceedsLimit(counted.count)
               THEN [store |-> SetEntry(cleaned, ip,
                                  [counted EXCEPT !.blockedUntil = t + BLOCK_MS]),
                     error |-> TooManyRequests]
               ELSE [store |-> SetEntry(cleaned, ip, counted), error |-> NoError]

(* The store after the call and the error thrown (NoError: the call returns). *)
ApplyRateLimit(store, ip, t) ==
    LET cleaned == CleanOldEntries(store, t)
        clientData == IF ip \in DOMAIN cleaned THEN cleaned[ip] ELSE FreshClientData(t)
    IN IF IsBlocked(clientData, t)
       THEN [store |-> cleaned, error |-> RateLimitWait(RemainingTime(clientData, t))]
       ELSE LET counted ==
                    IF WindowExpired(clientData, t)
                    THEN [clientData EXCEPT !.count = 1, !.timestamp = t]
                    ELSE [clientData EXCEPT !.count = clientData.count + 1]
            IN IF ExceedsLimit(counted.count)
               THEN [store |-> SetEntry(cleaned, ip,
                                  [counted EXCEPT !.blockedUntil = t + BLOCK_MS]),
                     error |-> TooManyRequests]
               ELSE [store |-> SetEntry(cleaned, ip, counted), error |-> NoError]

----------------------------------------------------------------------------
(* The catch block of the rate-limited handler: error.message.includes(..)  *)

(* The substrings, among those any catch block tests for, that occur in the *)
(* message of err.                                                          *)
PatternsIn(err) ==
    CASE err.kind = "RateLimitWait" ->
            {"Rate limit"}
              \cup (IF DigitsInclude(err.secs, 429) THEN {"429"} ELSE {})
              \cup (IF DigitsInclude(err.secs, 503) THEN {"503"} ELSE {})
      [] err.kind = "TooManyRequests" -> {"Too many requests"}
      [] err.kind = "PDF validation failed: Invalid base64 format" -> {"PDF validation"}
      [] err.kind = "PDF validation failed: base64String.startsWith is not a function" ->
            {"PDF validation"}
      [] err.kind = "PDF validation failed: The string to be decoded is not correctly encoded." ->
            {"PDF validation"}
      [] err.kind = "PDF validation failed: Invalid PDF file: Missing PDF header" ->
            {"PDF validation", "Invalid PDF file"}
      [] err.kind = "PDF validation failed: Invalid PDF file: Missing EOF marker" ->
            {"PDF validation", "Invalid PDF file"}
      [] err.kind = "PDF validation failed: File too large. Maximum size is 2MB." ->
            {"PDF validation", "File too large"}
      [] err.kind = "PDF validation failed: Empty PDF file" -> {"PDF validation"}
      [] err.kind = "Service configuration error" -> {"Service configuration", "configuration"}
      [] err.kind = "Missing API key configuration" -> {"API key", "configuration"}
      [] err.kind = "AI processing timeout" -> {"timeout"}
      [] err.kind = "AI request timeout" -> {"timeout"}
      [] err.kind = "No JSON object found in AI response" -> {"AI response", "JSON"}
      [] err.kind = "No valid JSON object found in AI response" -> {"AI response", "JSON"}
      [] err.kind = "AI response missing required fields: cvData or jobData" -> {"AI response"}
      [] err.kind = "Unexpected token in JSON" -> {"JSON"}
      [] err.kind = "JSON parse failed: Unexpected token in JSON" -> {"JSON"}
      [] err.kind = "AI quality check failed - poor summary generated" ->
            {"quality check failed"}
      [] err.kind = "AI quality check failed - summary too short" ->
            {"quality check failed"}
      [] err.kind = "[503 Service Unavailable] The model is overloaded" ->
            {"overloaded", "503"}
      [] err.kind = "[429 Too Many Requests] Resource has been exhausted" -> {"429"}
      [] OTHER -> {}

Includes(err, pattern) == pattern \in PatternsIn(err)

(* A chain that knows only the 'Rate limit' wording. *)
LimitedCatchStatusOneWording(err) ==
    IF Includes(err, "API key") \/ Includes(err, "Service configuration") THEN 500
    ELSE IF Includes(err, "overloaded") \/ Includes(err, "429") THEN 503
    ELSE IF Includes(err, "quality check failed") THEN 422
    ELSE IF Includes(err, "Rate limit") THEN 429
    ELSE IF Includes(err, "Invalid PDF file") \/ Includes(err, "PDF validation") THEN 400
    ELSE IF Includes(err, "File too large") THEN 400
    ELSE IF Includes(err, "timeout") THEN 408
    ELSE IF Includes(err, "Origin not allowed") THEN 403
    ELSE IF Includes(err, "Unsupported media type") THEN 415
    ELSE 500

LimitedCatchStatus(err) ==
    IF Includes(err, "API key") \/ Includes(err, "Service configuration") THEN 500
    ELSE IF Includes(err, "overloaded") \/ Includes(err, "429") THEN 503
    ELSE IF Includes(err, "quality check failed") THEN 422
    ELSE IF Includes(err, "Rate limit") \/ Includes(err, "Too many requests") THEN 429
    ELSE IF Includes(err, "Invalid PDF file") \/ Includes(err, "PDF validation") THEN 400
    ELSE IF Includes(err, "File too large") THEN 400
    ELSE IF Includes(err, "timeout") THEN 408
    ELSE IF Includes(err, "Origin not allowed") THEN 403
    ELSE IF Includes(err, "Unsupported media type") THEN 415
    ELSE 500

----------------------------------------------------------------------------
(* The limiter under a stream of requests that reach it: each request runs  *)
(* applyRateLimit on the shared store at the current time, and a throw is   *)
(* turned into a status by the handler's catch block.                       *)

EmptyStore == [k \in {} |-> FreshClientData(0)]

NoEntry == [count |-> 0, timestamp |-> -1, blockedUntil |-> 0]

EntryOf(store, ip) == IF ip \in DOMAIN store THEN store[ip] ELSE NoEntry

OutcomeOf(err) ==
    CASE err.kind = "none" -> "admitted"
      [] err.kind = "RateLimitWait" -> "blocked"
      [] OTHER -> "exceeded"

NoCall ==
    [ip |-> None, at |-> 0, outcome |-> "none", status |-> 0, retry |-> 0,
     before |-> NoEntry, after |-> NoEntry, priorUntil |-> 0, prevAt |-> -1, n |-> 0,
     soloOutcome |-> "none", soloStatus |-> 0, soloRetry |-> 0]

LimiterInit ==
    /\ now = 0
    /\ rateLimitStore = EmptyStore
    /\ last = NoCall
    /\ winReqs = [k \in ClientKeys |-> 0]
    /\ blockedTill = [k \in ClientKeys |-> 0]
    /\ lastReqAt = [k \in ClientKeys |-> -1]
    /\ solo = [k \in ClientKeys |-> EmptyStore]
    /\ rejections = [k \in ClientKeys |-> {}]
    /\ variant = "limited"
    /\ env = [apiKey |-> TRUE, cors |-> TRUE]
    /\ reqs = <<>>
    /\ model = 0
    /\ pure = NoValidation

(* Time passes between two requests. *)
Tick ==
    /\ \E t \in Times : t > now /\ now' = t
    /\ UNCHANGED <<rateLimitStore, last, winReqs, blockedTill, lastReqAt, solo, rejections>>
    /\ UNCHANGED <<handlerVars, pure>>

StatusOf(err) == IF err.kind = "none" THEN 0 ELSE LimitedCatchStatus(err)

LimitedRequest(headers) ==
    LET ip == ClientIP(headers)
        res == ApplyRateLimit(rateLimitStore, ip, now)
        own == ApplyRateLimit(solo[ip], ip, now)
        before == EntryOf(rateLimitStore, ip)
        after == EntryOf(res.store, ip)
        newWindow == after.timestamp = now /\ before.timestamp # now
        n == IF newWindow THEN 1 ELSE winReqs[ip] + 1
        outcome == OutcomeOf(res.error)
    IN /\ n <= MaxPerWindow
       /\ rateLimitStore' = res.store
       /\ solo' = [solo EXCEPT ![ip] = own.store]
       /\ winReqs' = [winReqs EXCEPT ![ip] = n]
       /\ blockedTill' = [blockedTill EXCEPT ![ip] =
                             IF outcome = "exceeded" THEN after.blockedUntil ELSE @]
       /\ lastReqAt' = [lastReqAt EXCEPT ![ip] = now]
       /\ rejections' = [rejections EXCEPT ![ip] =
                             IF outcome = "blocked"
                             THEN @ \cup {[at |-> now, retry |-> res.error.secs,
                                           until |-> before.blockedUntil]}
                             ELSE {}]
       /\ last' = [ip |-> ip, at |-> now, outcome |-> outcome,
                   status |-> StatusOf(res.error), retry |-> res.error.secs,
                   before |-> before, after |-> after,
                   priorUntil |-> blockedTill[ip], prevAt |-> lastReqAt[ip], n |-> n,
                   soloOutcome |-> OutcomeOf(own.error),
                   soloStatus |-> StatusOf(own.error),
                   soloRetry |-> own.error.secs]
       /\ UNCHANGED <<now, handlerVars, pure>>

LimiterNext ==
    \/ Tick
    \/ \E headers \in HeaderSets : LimitedRequest(headers)

SpecLimiter == LimiterInit /\ [][LimiterNext]_vars

----------------------------------------------------------------------------
(* Properties of the rate limiter, checked under SpecLimiter                *)

Called == last.outcome # "none"

Rejected == last.outcome \in {"blocked", "exceeded"}

(* C1: for every client key the first MAX_REQUESTS_PER_MINUTE requests of   *)
(* one window are admitted, and the next request of the key made less than  *)
(* WINDOW_MS after the window start is rejected with status 429.            *)
RL_FirstNAdmittedNextRejected ==
    Called =>
        /\ (last.n <= MAX_REQUESTS_PER_MINUTE => last.outcome = "admitted")
        /\ (last.n = MAX_REQUESTS_PER_MINUTE + 1
              /\ last.at - last.after.timestamp < WINDOW_MS
            => Rejected /\ last.status = 429)

(* The request after the ceiling arrives one second into the window and is  *)
(* rejected.                                                                *)
RL_CeilingReachedInsideWindow ==
    /\ last.outcome = "exceeded"
    /\ last.n = MAX_REQUESTS_PER_MINUTE + 1
    /\ last.at - last.after.timestamp = 1000

(* C2: once a key has been blocked, every later request of the key made     *)
(* strictly before blockedUntil is rejected.                                *)
RL_BlockHoldsUntilBlockedUntil ==
    (Called /\ last.priorUntil > last.at) => Rejected

(* C3: a request of a non-blocked client made exactly WINDOW_MS after the   *)
(* client's window start opens a new window: count 1, window start = now,   *)
(* admitted.                                                                *)
RL_RequestAtWindowEndResets ==
    (/\ Called
     /\ last.before # NoEntry
     /\ ~IsBlocked(last.before, last.at)
     /\ last.at - last.before.timestamp = WINDOW_MS)
    => /\ last.outcome = "admitted"
       /\ last.after.count = 1
       /\ last.after.timestamp = last.at

(* C4: the first request that a previously blocked client makes at or after *)
(* its blockedUntil is admitted into a fresh window: count 1, window start  *)
(* = now, no pending block.                                                 *)
RL_FreshWindowAfterBlock ==
    (/\ Called
     /\ last.priorUntil > 0
     /\ last.at >= last.priorUntil
     /\ last.prevAt < last.priorUntil)
    => /\ last.outcome = "admitted"
       /\ last.after = [count |-> 1, timestamp |-> last.at, blockedUntil |-> 0]

(* retry = ceil((until - at) / 1000), stated without the rounding operator *)
IsCeilOfRemaining(r) ==
    /\ r.retry * 1000 >= r.until - r.at
    /\ (r.retry - 1) * 1000 < r.until - r.at

(* C5 as stated: the retry-after of a "currently blocked" rejection is      *)
(* ceil((blockedUntil - now)/1000), and of two such rejections of one block *)
(* the later one reports a strictly smaller value.                          *)
RL_RetryAfterStrictlyDecreasing ==
    \A k \in ClientKeys :
        /\ \A r \in rejections[k] : IsCeilOfRemaining(r)
        /\ \A r1, r2 \in rejections[k] :
              (r1.until = r2.until /\ r1.at < r2.at) => r2.retry < r1.retry

(* C5 amended: the retry-after of a "currently blocked" rejection is        *)
(* ceil((blockedUntil - now)/1000); of two such rejections of one block the *)
(* later one never reports a larger value, and reports a strictly smaller   *)
(* one when it comes at least 1000 ms after the earlier.                    *)
RL_RetryAfterCeilNonIncreasing ==
    \A k \in ClientKeys :
        /\ \A r \in rejections[k] : IsCeilOfRemaining(r)
        /\ \A r1, r2 \in rejections[k] :
              (r1.until = r2.until /\ r1.at < r2.at)
              => /\ r2.retry <= r1.retry
                 /\ (r2.at - r1.at >= 1000 => r2.retry < r1.retry)

(* Two rejections of one block at different times within the same reported  *)
(* second: the later one reports the same value.                            *)
RL_TwoRejectionsOfOneBlock ==
    \E k \in ClientKeys : \E r1, r2 \in rejections[k] :
        /\ r1.until = r2.until
        /\ r1.at < r2.at
        /\ r2.retry = r1.retry

(* C6: the outcome of every request of a key (admission, status, reported   *)
(* retry-after) is the one the key would get had no other key ever called   *)
(* the limiter; and while one key is rejected over its ceiling, a request   *)
(* of another key that is below its ceiling in the same window is admitted. *)
RL_PerKeyIsolation ==
    Called =>
        /\ last.outcome = last.soloOutcome
        /\ last.status = last.soloStatus
        /\ last.retry = last.soloRetry
        /\ (last.n <= MAX_REQUESTS_PER_MINUTE
              /\ (\E k \in DOMAIN rateLimitStore :
                     k # last.ip /\ IsBlocked(rateLimitStore[k], now))
            => last.outcome = "admitted")

(* A key is admitted at the very time another key is blocked in the same    *)
(* window.                                                                  *)
RL_AdmittedBesideBlockedKey ==
    /\ last.outcome = "admitted"
    /\ last.at = now
    /\ \E k \in DOMAIN rateLimitStore :
          /\ k # last.ip
          /\ IsBlocked(rateLimitStore[k], now)
          /\ rateLimitStore[k].blockedUntil = now + BLOCK_MS

(* C7: every request rejected by the limiter, the one that triggers the     *)
(* block as well as one arriving while the block is pending, is answered    *)
(* with status 429.                                                         *)
RL_RejectedIs429 == Rejected => last.status = 429

(* A request is rejected while the block is pending, with status 429. *)
RL_BlockedRejectionSeen ==
    /\ last.outcome = "blocked"
    /\ last.status = 429
    /\ last.at > last.before.timestamp

----------------------------------------------------------------------------
(* The handler iterations.                                                  *)
(*   basic   : api/processCV.js, first iteration (no timer, no try around   *)
(*             the checks)                                                  *)
(*   guarded : the iteration with SecurityUtils.validateBase64 inside the   *)
(*             try block (api/processCV.js second iteration, and the two    *)
(*             copies of it that differ in the prompt only)                 *)
(*   limited : the rate-limited, retrying iteration                         *)
(*   repair  : the iteration with JsonUtils (no input validation)           *)
(*   strict  : the iteration that validates in a try block of its own       *)

Variants == {"basic", "guarded", "limited", "repair", "strict"}

(* The most requests one run of the handler model receives. *)
MaxRequests == 1

(* The latest time, in ms, at which a request of a run arrives. *)
LastArrival == 30000

(* CONFIG.TIMEOUT_MS; 0: generateContent is awaited without a timer *)
TimeoutMs(v) ==
    CASE v = "basic" -> 0
      [] v = "limited" -> 45000
      [] OTHER -> 60000

(* The size ceiling in bytes: maxMB * 1024 * 1024 *)
MaxPdfBytes(v) ==
    CASE v \in {"basic", "limited"} -> 2 * 1024 * 1024
      [] OTHER -> 5 * 1024 * 1024

(* A payload is described by what the validators read of it:                *)
(*   typ    : "undefined", "empty" (the string ""), "string", "number"      *)
(*   prefix : it starts with 'data:application/pdf;base64,'                 *)
(*   ws     : it holds a whitespace character                               *)
(*   bad    : it holds a character outside A-Za-z0-9+/= and whitespace      *)
(*   len    : the number of its base64 characters                           *)
(*   header, eof : its decoded bytes start with %PDF, contain %%EOF         *)
Pdf(prefix, ws, bad, len, header, eof) ==
    [typ |-> "string", prefix |-> prefix, ws |-> ws, bad |-> bad, len |-> len,
     header |-> header, eof |-> eof]

NotAString(typ) ==
    [typ |-> typ, prefix |-> FALSE, ws |-> FALSE, bad |-> FALSE, len |-> 0,
     header |-> FALSE, eof |-> FALSE]

ValidPdf == Pdf(FALSE, FALSE, FALSE, 400, TRUE, TRUE)

Payloads ==
    { ValidPdf,
      Pdf(TRUE, FALSE, FALSE, 400, TRUE, TRUE),
      Pdf(FALSE, TRUE, FALSE, 400, TRUE, TRUE),
      Pdf(FALSE, FALSE, TRUE, 400, TRUE, TRUE),
      Pdf(FALSE, FALSE, FALSE, 400, FALSE, TRUE),
      Pdf(FALSE, FALSE, FALSE, 400, TRUE, FALSE),
      Pdf(FALSE, FALSE, FALSE, 2796204, TRUE, TRUE),
      Pdf(FALSE, FALSE, FALSE, 6990508, TRUE, TRUE),
      NotAString("undefined"), NotAString("empty"), NotAString("number") }

(* !pdfBase64 *)
Falsy(p) == p.typ \in {"undefined", "empty"}

(* 'data:application/pdf;base64,'.length = 28 *)
PrefixLength(p) == IF p.prefix THEN 28 ELSE 0

(* str.length and str.replace(/\s/g, '').length *)
NonWsLength(p) == PrefixLength(p) + p.len + (IF p.bad THEN 1 ELSE 0)

RawLength(p) == NonWsLength(p) + (IF p.ws THEN 1 ELSE 0)

(* length * 0.75 <= maxSize, in integers *)
EstimateWithin(length, maxSize) == 3 * length <= 4 * maxSize

(* basic: the checks between the missing-field check and the try block *)
BasicValidate(p) ==
    IF p.typ # "string" THEN "NotString"
    ELSE IF ~EstimateWithin(RawLength(p), MaxPdfBytes("basic")) THEN "TooLarge"
    ELSE IF p.bad \/ p.prefix THEN "BadChars"
    ELSE "ok"

(* guarded, strict: SecurityUtils.validateBase64 *)
ValidateBase64(v, p) ==
    IF p.typ # "string" THEN "NotString"
    ELSE IF p.bad \/ p.prefix THEN "BadChars"
    ELSE IF ~EstimateWithin(NonWsLength(p), MaxPdfBytes(v)) THEN "TooLarge"
    ELSE "ok"

(* limited: SecurityUtils.validatePDF *)
ValidatePDF(p) ==
    IF p.typ # "string" THEN "TypeError"
    ELSE IF p.bad \/ p.ws THEN "BadChars"
    ELSE IF p.len % 4 = 1 THEN "Undecodable"
    ELSE IF ~p.header THEN "NoHeader"
    ELSE IF ~p.eof THEN "NoEof"
    ELSE IF ~EstimateWithin(p.len, MaxPdfBytes("limited")) THEN "TooLarge"
    ELSE IF p.len = 0 THEN "Empty"
    ELSE "ok"

(* The verdict of the input validation that iteration v performs. *)
Validate(v, p) ==
    CASE v = "basic" -> BasicValidate(p)
      [] v \in {"guarded", "strict"} -> ValidateBase64(v, p)
      [] v = "limited" -> ValidatePDF(p)
      [] OTHER -> "ok"

(* The message validatePDF throws for a verdict. *)
PdfValidationError(verdict) ==
    CASE verdict = "TypeError" ->
            MkError("PDF validation failed: base64String.startsWith is not a function")
      [] verdict = "BadChars" -> MkError("PDF validation failed: Invalid base64 format")
      [] verdict = "Undecodable" ->
            MkError("PDF validation failed: The string to be decoded is not correctly encoded.")
      [] verdict = "NoHeader" ->
            MkError("PDF validation failed: Invalid PDF file: Missing PDF header")
      [] verdict = "NoEof" ->
            MkError("PDF validation failed: Invalid PDF file: Missing EOF marker")
      [] verdict = "TooLarge" ->
            MkError("PDF validation failed: File too large. Maximum size is 2MB.")
      [] verdict = "Empty" -> MkError("PDF validation failed: Empty PDF file")
      [] OTHER -> NoError

(* The message validateBase64 throws for a verdict. *)
Base64ValidationError(verdict) ==
    CASE verdict = "NotString" -> MkError("Invalid pdfBase64: must be a non-empty string")
      [] verdict = "BadChars" -> MkError("Invalid pdfBase64: contains non-base64 characters")
      [] verdict = "TooLarge" -> MkError("PDF size exceeds limit of 5MB")
      [] OTHER -> NoError

----------------------------------------------------------------------------
(* The catch blocks *)

(* guarded, strict: error.message === 'AI_REQUEST_TIMEOUT' ? 504 : 500 *)
GuardedCatchStatus(err) == IF err.kind = "AI_REQUEST_TIMEOUT" THEN 504 ELSE 500

(* basic: the inner catch and the incomplete-data check answer 502 *)
BasicCatchStatus(err) ==
    IF err.kind \in {"AI service returned invalid data format.",
                     "AI service returned incomplete data."}
    THEN 502 ELSE 500

(* repair: every error is answered with 500 *)
RepairCatchStatus(err) == 500

(* The response bodies: end() sends none, a 200 carries the parsed data, an *)
(* error carries a message and possibly further fields: extra names the    *)
(* fields always sent, devExtra those sent only when NODE_ENV is            *)
(* 'development'.                                                           *)
NoBody == [kind |-> "none", message |-> "", extra |-> {}, devExtra |-> {}]

ResultBody == [kind |-> "result", message |-> "", extra |-> {}, devExtra |-> {}]

Msg(text) == [kind |-> "message", message |-> text, extra |-> {}, devExtra |-> {}]

MsgWith(text, field) ==
    [kind |-> "message", message |-> text, extra |-> {field}, devExtra |-> {}]

(* The fields of a body besides message, by the development flag. *)
FieldsSent(body, dev) == IF dev THEN body.extra \cup body.devExtra ELSE body.extra

(* The text of error.message: the rate limiter's two messages are named by  *)
(* their kind.                                                              *)
MessageOf(err) == err.kind

GuardedCatchBody(err) ==
    IF err.kind = "AI_REQUEST_TIMEOUT"
    THEN Msg("Request timed out after 60000ms. Try a smaller PDF.")
    ELSE IF Includes(err, "AI response")
    THEN Msg("AI service returned invalid data format.")
    ELSE IF Includes(err, "API key") \/ Includes(err, "configuration")
    THEN Msg("Service configuration error. Please contact administrator.")
    ELSE Msg("Unable to process CV. An unexpected error occurred.")

BasicCatchBody(err) ==
    IF BasicCatchStatus(err) = 502 THEN Msg(MessageOf(err))
    ELSE Msg("Error processing the CV with the AI service.")

RepairCatchBody(err) ==
    IF Includes(err, "API key") \/ Includes(err, "configuration")
    THEN Msg("Service configuration error. Please contact administrator.")
    ELSE IF Includes(err, "overloaded") \/ Includes(err, "503")
    THEN Msg("AI service is temporarily busy. Please try again in 30 seconds.")
    ELSE IF Includes(err, "timeout")
    THEN Msg("Request timed out. Please try a smaller PDF file.")
    ELSE IF Includes(err, "JSON")
    THEN Msg("AI service returned invalid data format. Please try again.")
    ELSE Msg("Unable to process CV. Please try again.")

LimitedUserMessage(err) ==
    IF Includes(err, "API key") \/ Includes(err, "Service configuration")
    THEN "Service configuration error."
    ELSE IF Includes(err, "overloaded") \/ Includes(err, "429")
    THEN "AI service is busy. Please try again in 30 seconds."
    ELSE IF Includes(err, "quality check failed")
    THEN "AI generated poor quality content. Please try again."
    ELSE IF Includes(err, "Rate limit") \/ Includes(err, "Too many requests")
    THEN MessageOf(err)
    ELSE IF Includes(err, "Invalid PDF file") \/ Includes(err, "PDF validation")
    THEN MessageOf(err)
    ELSE IF Includes(err, "File too large") THEN MessageOf(err)
    ELSE IF Includes(err, "timeout") THEN "Processing took too long. Please try again."
    ELSE IF Includes(err, "Origin not allowed") THEN "Access denied."
    ELSE IF Includes(err, "Unsupported media type") THEN "Invalid request format."
    ELSE "Unable to process CV. Please try again."

(* { message: userMessage, ...(responseError && { error: responseError }) } *)
LimitedCatchBody(err) ==
    [kind |-> "message", message |-> LimitedUserMessage(err), extra |-> {},
     devExtra |-> {"error"}]

CatchBody(v, err) ==
    CASE v = "basic" -> BasicCatchBody(err)
      [] v \in {"guarded", "strict"} -> GuardedCatchBody(err)
      [] v = "limited" -> LimitedCatchBody(err)
      [] OTHER -> RepairCatchBody(err)

CatchStatus(v, err) ==
    CASE v = "basic" -> BasicCatchStatus(err)
      [] v \in {"guarded", "strict"} -> GuardedCatchStatus(err)
      [] v = "limited" -> LimitedCatchStatus(err)
      [] OTHER -> RepairCatchStatus(err)

(* The error of a timer that wins the race. *)
TimeoutError(v) ==
    CASE v = "limited" -> MkError("AI processing timeout")
      [] v = "repair" -> MkError("AI request timeout")
      [] OTHER -> MkError("AI_REQUEST_TIMEOUT")

----------------------------------------------------------------------------
(* The handler up to its first await.  The result is the response status,   *)
(* or 0 when generateContent is called, or -1 when an exception escapes the *)
(* handler; with the rate-limit store the call leaves behind.               *)

Methods == {"POST", "GET", "OPTIONS"}

Answer(status, body, store) ==
    [status |-> status, body |-> body, store |-> store, admitted |-> FALSE]

(* The catch block answers an error thrown before the first await. *)
Caught(v, err, store, admitted) ==
    [status |-> CatchStatus(v, err), body |-> CatchBody(v, err), store |-> store,
     admitted |-> admitted]

Escapes(store) == [status |-> -1, body |-> NoBody, store |-> store, admitted |-> FALSE]

CallsModel(store, admitted) ==
    [status |-> 0, body |-> NoBody, store |-> store, admitted |-> admitted]

(* The message of the check that rejects the payload in the first iteration *)
BasicValidationMessage(verdict) ==
    CASE verdict = "NotString" -> "Invalid pdfBase64: must be a non-empty string"
      [] verdict = "TooLarge" -> "PDF size exceeds 2MB limit."
      [] OTHER -> "Invalid pdfBase64: contains non-base64 characters"

BasicPrefix(in, e, store) ==
    IF in.method = "OPTIONS" THEN Answer(200, NoBody, store)
    ELSE IF in.method # "POST" THEN Answer(405, Msg("Method not allowed"), store)
    ELSE IF ~e.apiKey
         THEN Answer(500, Msg("Server configuration error: Missing API key."), store)
    ELSE IF ~in.body THEN Escapes(store)
    ELSE IF Falsy(in.payload)
         THEN Answer(400, Msg("Missing pdfBase64 in request body"), store)
    ELSE IF BasicValidate(in.payload) # "ok"
         THEN Answer(400, Msg(BasicValidationMessage(BasicValidate(in.payload))), store)
    ELSE CallsModel(store, FALSE)

(* The verdict of the validation stage as the guarded handler's try block   *)
(* sees it.                                                                 *)
GuardedValidationStage(in) == ValidateBase64("guarded", in.payload)

GuardedPrefix(in, e, store) ==
    IF e.cors /\ in.method = "OPTIONS" THEN Answer(200, NoBody, store)
    ELSE IF in.method # "POST"
         THEN Answer(405, MsgWith("Method not allowed", "allowed"), store)
    ELSE IF ~in.body THEN Answer(400, Msg("Request body is missing"), store)
    ELSE IF Falsy(in.payload)
         THEN Answer(400, Msg("Missing required field: pdfBase64"), store)
    ELSE IF ~e.apiKey
         THEN Caught("guarded", MkError("Missing GOOGLE_AI_API_KEY environment variable"),
                     store, FALSE)
    ELSE IF GuardedValidationStage(in) # "ok"
         THEN Caught("guarded", Base64ValidationError(GuardedValidationStage(in)),
                     store, FALSE)
    ELSE CallsModel(store, FALSE)

(* The validation stage skipped: every payload passes. *)
LimitedValidationSkipped(in) == "ok"

LimitedValidationStage(in) == ValidatePDF(in.payload)

LimitedPrefix(in, e, store, t) ==
    IF in.origin # "allowed" THEN Answer(403, Msg("Origin not allowed"), store)
    ELSE IF in.method = "OPTIONS" THEN Answer(200, NoBody, store)
    ELSE IF in.method # "POST" THEN Answer(405, Msg("Method not allowed"), store)
    ELSE IF ~in.body THEN Answer(400, Msg("Request body is missing"), store)
    ELSE IF Falsy(in.payload) THEN Answer(400, Msg("Missing pdfBase64"), store)
    ELSE IF in.ctype # "application/json"
         THEN Answer(415, Msg("Unsupported media type"), store)
    ELSE LET rl == ApplyRateLimit(store, ClientIP(in.headers), t)
         IN IF rl.error # NoError THEN Caught("limited", rl.error, rl.store, FALSE)
            ELSE IF LimitedValidationStage(in) # "ok"
                 THEN Caught("limited", PdfValidationError(LimitedValidationStage(in)),
                             rl.store, TRUE)
            ELSE IF ~e.apiKey
                 THEN Caught("limited", MkError("Service configuration error"),
                             rl.store, TRUE)
            ELSE CallsModel(rl.store, TRUE)

RepairPrefix(in, e, store) ==
    IF in.method = "OPTIONS" THEN Answer(200, NoBody, store)
    ELSE IF in.method # "POST" THEN Answer(405, Msg("Method not allowed"), store)
    ELSE IF ~in.body THEN Answer(400, Msg("Request body is missing"), store)
    ELSE IF Falsy(in.payload) THEN Answer(400, Msg("Missing pdfBase64"), store)
    ELSE IF ~e.apiKey
         THEN Caught("repair", MkError("Missing API key configuration"), store, FALSE)
    ELSE IF in.payload.typ # "string"
         THEN Caught("repair", MkError("pdfBase64.startsWith is not a function"),
                     store, FALSE)
    ELSE CallsModel(store, FALSE)

StrictPrefix(in, e, store) ==
    IF e.cors /\ in.method = "OPTIONS" THEN Answer(200, NoBody, store)
    ELSE IF in.method # "POST"
         THEN Answer(405, MsgWith("Method not allowed", "allowed"), store)
    ELSE IF ~in.body THEN Escapes(store)
    ELSE IF Falsy(in.payload)
         THEN Answer(400, Msg("Missing required field: pdfBase64"), store)
    ELSE IF ValidateBase64("strict", in.payload) # "ok"
         THEN Answer(400, Msg(MessageOf(Base64ValidationError(
                                   ValidateBase64("strict", in.payload)))), store)
    ELSE CallsModel(store, FALSE)

Prefix(v, in, e, store, t) ==
    CASE v = "basic" -> BasicPrefix(in, e, store)
      [] v = "guarded" -> GuardedPrefix(in, e, store)
      [] v = "limited" -> LimitedPrefix(in, e, store, t)
      [] v = "repair" -> RepairPrefix(in, e, store)
      [] OTHER -> StrictPrefix(in, e, store)

----------------------------------------------------------------------------
(* The model's reply, by what the normalisation of each iteration makes of  *)
(* it:                                                                      *)
(*   good        : JSON with cvData and jobData and a usable summary        *)
(*   noCv, noJob : valid JSON without cvData, without jobData               *)
(*   poorSummary : valid JSON with both keys, summary fails the quality     *)
(*                 check of the limited iteration                           *)
(*   repairable  : not strict JSON, parses after JsonUtils' repair pass     *)
(*   garbled     : braces present, no parse even after repair               *)
(*   noJson      : no braces at all                                         *)
(*   cvString    : valid JSON with both keys, cvData a non-empty string     *)
Replies ==
    {"good", "noCv", "noJob", "poorSummary", "repairable", "garbled", "noJson",
     "cvString"}

(* The rejections of generateContent. *)
AiErrors ==
    { MkError("[503 Service Unavailable] The model is overloaded"),
      MkError("[429 Too Many Requests] Resource has been exhausted"),
      MkError("fetch failed") }

(* The error the code after the await raises for a reply (NoError: 200). *)
ReplyError(v, reply) ==
    CASE v = "basic" ->
            IF reply \in {"repairable", "garbled", "noJson"}
            THEN MkError("AI service returned invalid data format.")
            ELSE IF reply \in {"noCv", "noJob"}
            THEN MkError("AI service returned incomplete data.")
            ELSE NoError
      [] v \in {"guarded", "strict"} ->
            IF reply \in {"repairable", "garbled", "noJson"}
            THEN MkError("Unexpected token in JSON")
            ELSE IF reply \in {"noCv", "noJob"}
            THEN MkError("AI response missing required fields: cvData or jobData")
            ELSE NoError
      [] v = "limited" ->
            IF reply = "noJson" THEN MkError("No JSON object found in AI response")
            ELSE IF reply \in {"repairable", "garbled"} THEN MkError("Unexpected token in JSON")
            ELSE IF reply \in {"noCv", "cvString"}
            THEN MkError("AI quality check failed - summary too short")
            ELSE IF reply = "poorSummary"
            THEN MkError("AI quality check failed - poor summary generated")
            ELSE NoError
      [] OTHER ->
            IF reply = "noJson" THEN MkError("No valid JSON object found in AI response")
            ELSE IF reply = "garbled"
            THEN MkError("JSON parse failed: Unexpected token in JSON")
            ELSE NoError

----------------------------------------------------------------------------
(* The requests *)

GoodHeaders == [xff |-> "10.0.0.1", xri |-> None]

GoodInput ==
    [method |-> "POST", origin |-> "allowed", body |-> TRUE,
     ctype |-> "application/json", payload |-> ValidPdf, headers |-> GoodHeaders]

(* A well-formed request, and the requests that differ from it in one part. *)
Inputs ==
    {[GoodInput EXCEPT !.method = m] : m \in Methods}
      \cup {[GoodInput EXCEPT !.payload = p] : p \in Payloads}
      \cup {[GoodInput EXCEPT !.origin = "https://elsewhere.example"],
            [GoodInput EXCEPT !.ctype = "text/plain"],
            [GoodInput EXCEPT !.method = "GET", !.origin = "https://elsewhere.example"],
            [GoodInput EXCEPT !.method = "OPTIONS", !.origin = "https://elsewhere.example"],
            [GoodInput EXCEPT !.body = FALSE, !.payload = NotAString("undefined")],
            [GoodInput EXCEPT !.headers = [xff |-> None, xri |-> None]]}

NewRequest(in, res, t) ==
    [in |-> in,
     st |-> IF res.status = 0 THEN "racing"
            ELSE IF res.status = -1 THEN "escaped" ELSE "done",
     status |-> IF res.status > 0 THEN res.status ELSE 0,
     admitted |-> res.admitted,
     attempt |-> IF res.status = 0 THEN 1 ELSE 0,
     calls |-> IF res.status = 0 THEN 1 ELSE 0,
     callAt |-> IF res.status = 0 THEN t ELSE -1,
     delayUntil |-> -1,
     reply |-> "none",
     body |-> res.body,
     overloadOnly |-> TRUE,
     responses |-> IF res.status > 0 THEN 1 ELSE 0,
     abandoned |-> 0,
     timers |-> {},
     respondedAt |-> IF res.status > 0 THEN t ELSE -1,
     timedOutAt |-> -1]

(* The store after n requests of the well-formed request's client at time 0 *)
RECURSIVE StoreAfter(_)
StoreAfter(n) ==
    IF n = 0 THEN EmptyStore
    ELSE ApplyRateLimit(StoreAfter(n - 1), ClientIP(GoodHeaders), 0).store

(* The stores the process may hold when the observed requests arrive: empty *)
(* for the iterations without a limiter; for the limited one, what earlier  *)
(* requests (none, as many as the ceiling, one past it) have left.          *)
WarmStores(v) ==
    IF v = "limited"
    THEN {StoreAfter(n) : n \in {0, MAX_REQUESTS_PER_MINUTE, MAX_REQUESTS_PER_MINUTE + 1}}
    ELSE {EmptyStore}

HandlerInit ==
    /\ now = 0
    /\ variant \in Variants
    /\ rateLimitStore \in WarmStores(variant)
    /\ last = NoCall
    /\ winReqs = [k \in ClientKeys |-> 0]
    /\ blockedTill = [k \in ClientKeys |-> 0]
    /\ lastReqAt = [k \in ClientKeys |-> -1]
    /\ solo = [k \in ClientKeys |-> EmptyStore]
    /\ rejections = [k \in ClientKeys |-> {}]
    /\ env \in [apiKey : BOOLEAN, cors : BOOLEAN]
    /\ (variant = "strict" => env.apiKey)
    /\ (variant \notin {"guarded", "strict"} => env.cors)
    /\ reqs = <<>>
    /\ model = 0
    /\ pure = NoValidation

limiterGhosts == <<last, winReqs, blockedTill, lastReqAt, solo, rejections>>

(* Does the handler get as far as genAI = ..., model = ... ?  The guarded,   *)
(* rate-limited and JsonUtils iterations assign the module-level variables  *)
(* for each request, once the API key is read and before the remaining      *)
(* checks of the guarded and JsonUtils iterations; the first and the strict *)
(* iteration create one instance when the module is loaded.                 *)
AssignsModel(v, in, e, res) ==
    \/ v \in {"guarded", "limited", "repair"} /\ res.status = 0
    \/ /\ v \in {"guarded", "repair"}
       /\ in.method = "POST" /\ in.body /\ ~Falsy(in.payload) /\ e.apiKey

(* A request arrives and the handler runs up to its first await. *)
Receive(in) ==
    /\ Len(reqs) < MaxRequests
    /\ now <= LastArrival
    /\ LET res == Prefix(variant, in, env, rateLimitStore, now)
       IN /\ reqs' = Append(reqs, NewRequest(in, res, now))
          /\ rateLimitStore' = res.store
          /\ model' = IF AssignsModel(variant, in, env, res) THEN Len(reqs) + 1 ELSE model
    /\ UNCHANGED <<now, variant, env, limiterGhosts, pure>>

(* The response is sent and the invocation returns: its locals are gone. *)
Respond(r, status, body, t) ==
    [r EXCEPT !.st = "done", !.status = status, !.body = body, !.respondedAt = t,
              !.responses = @ + 1,
              !.attempt = 0, !.callAt = -1, !.delayUntil = -1]

(* The overload signals of the provider: the word or a status code in the   *)
(* message of the rejection.                                                *)
IsOverload(err) ==
    Includes(err, "overloaded") \/ Includes(err, "503") \/ Includes(err, "429")

(* A catch block that answers with the timeout of an earlier attempt. *)
FailTimeoutSticks(v, r, err, t) ==
    LET q == [r EXCEPT !.overloadOnly = @ /\ IsOverload(err)]
        shown == IF r.timedOutAt # -1 THEN TimeoutError(v) ELSE err
    IN IF v = "limited" /\ r.attempt < MAX_RETRIES
       THEN [q EXCEPT !.st = "delay", !.delayUntil = t + RETRY_DELAY_MS]
       ELSE Respond(q, CatchStatus(v, shown), CatchBody(v, shown), t)

(* An attempt has failed with err: the retry loop of the limited handler    *)
(* waits RETRY_DELAY_MS before the next attempt (the reply of the failed    *)
(* attempt, if it had one, is kept until then), every other path throws to  *)
(* the catch block.                                                         *)
Fail(v, r, err, t) ==
    LET q == [r EXCEPT !.overloadOnly = @ /\ IsOverload(err)]
    IN IF v = "limited" /\ r.attempt < MAX_RETRIES
       THEN [q EXCEPT !.st = "delay", !.delayUntil = t + RETRY_DELAY_MS]
       ELSE Respond(q, CatchStatus(v, err), CatchBody(v, err), t)

(* The race is decided by generateContent: nothing clears the timer of the  *)
(* race, which stays pending until its time.                                *)
TimerLeft(v, r) ==
    IF TimeoutMs(v) > 0
    THEN [r EXCEPT !.timers = @ \cup {r.callAt + TimeoutMs(v)}]
    ELSE r

(* generateContent resolves first. *)
AiResolve(i, reply) ==
    /\ reqs[i].st = "racing"
    /\ reqs' = [reqs EXCEPT ![i] =
                  LET r == [TimerLeft(variant, @) EXCEPT !.reply = reply]
                  IN IF ReplyError(variant, reply) = NoError
                     THEN Respond(r, 200, ResultBody, now)
                     ELSE Fail(variant, r, ReplyError(variant, reply), now)]
    /\ UNCHANGED <<now, rateLimitStore, variant, env, model, limiterGhosts, pure>>

(* generateContent rejects first. *)
AiReject(i, err) ==
    /\ reqs[i].st = "racing"
    /\ reqs' = [reqs EXCEPT ![i] = Fail(variant, TimerLeft(variant, @), err, now)]
    /\ UNCHANGED <<now, rateLimitStore, variant, env, model, limiterGhosts, pure>>

(* The timer of the race fires first. *)
TimerFire(i) ==
    /\ reqs[i].st = "racing"
    /\ TimeoutMs(variant) > 0
    /\ now = reqs[i].callAt + TimeoutMs(variant)
    /\ reqs' = [reqs EXCEPT ![i] =
                  Fail(variant,
                       [@ EXCEPT !.timedOutAt = IF @ = -1 THEN now ELSE @,
                                 !.abandoned = @ + 1],
                       TimeoutError(variant), now)]
    /\ UNCHANGED <<now, rateLimitStore, variant, env, model, limiterGhosts, pure>>

(* A loop whose next attempt calls generateContent twice. *)
DelayEndTwoCalls(i) ==
    /\ reqs[i].st = "delay"
    /\ now = reqs[i].delayUntil
    /\ reqs' = [reqs EXCEPT ![i] =
                  [@ EXCEPT !.st = "racing", !.attempt = @ + 1, !.calls = @ + 2,
                            !.callAt = now, !.reply = "none"]]
    /\ UNCHANGED <<now, rateLimitStore, variant, env, model, limiterGhosts, pure>>

(* A loop whose next attempt passes the limiter again. *)
DelayEndCounted(i) ==
    /\ reqs[i].st = "delay"
    /\ now = reqs[i].delayUntil
    /\ reqs' = [reqs EXCEPT ![i] =
                  [@ EXCEPT !.st = "racing", !.attempt = @ + 1, !.calls = @ + 1,
                            !.callAt = now, !.reply = "none"]]
    /\ rateLimitStore' = ApplyRateLimit(rateLimitStore, ClientIP(reqs[i].in.headers), now).store
    /\ UNCHANGED <<now, variant, env, model, limiterGhosts, pure>>

(* The retry delay is over: the loop starts the next attempt, which has no  *)
(* reply yet.                                                               *)
DelayEnd(i) ==
    /\ reqs[i].st = "delay"
    /\ now = reqs[i].delayUntil
    /\ reqs' = [reqs EXCEPT ![i] =
                  [@ EXCEPT !.st = "racing", !.attempt = @ + 1, !.calls = @ + 1,
                            !.callAt = now, !.reply = "none"]]
    /\ UNCHANGED <<now, rateLimitStore, variant, env, model, limiterGhosts, pure>>

(* A call that lost its race settles: the race is already decided and the   *)
(* result is discarded.                                                     *)
LateSettle(i) ==
    /\ reqs[i].abandoned > 0
    /\ reqs' = [reqs EXCEPT ![i].abandoned = @ - 1]
    /\ UNCHANGED <<now, rateLimitStore, variant, env, model, limiterGhosts, pure>>

(* The timer of a race that generateContent decided fires: its rejection    *)
(* reaches a race that is already settled.                                  *)
LateTimer(i) ==
    /\ now \in reqs[i].timers
    /\ reqs' = [reqs EXCEPT ![i].timers = @ \ {now}]
    /\ UNCHANGED <<now, rateLimitStore, variant, env, model, limiterGhosts, pure>>

(* The pending timers: of the races and of the retry delays. *)
Deadlines ==
    {reqs[i].callAt + TimeoutMs(variant) :
        i \in {j \in DOMAIN reqs : reqs[j].st = "racing" /\ TimeoutMs(variant) > 0}}
      \cup {reqs[i].delayUntil : i \in {j \in DOMAIN reqs : reqs[j].st = "delay"}}
      \cup UNION {reqs[i].timers : i \in DOMAIN reqs}

(* Time passes up to the next pending timer; a timer that is due fires      *)
(* before the clock moves on.                                               *)
Advance ==
    /\ Deadlines # {}
    /\ \A d \in Deadlines : d > now
    /\ now' = CHOOSE d \in Deadlines : \A e \in Deadlines : d <= e
    /\ UNCHANGED <<rateLimitStore, variant, env, reqs, model, limiterGhosts, pure>>

HandlerNext ==
    \/ \E in \in Inputs : Receive(in)
    \/ \E i \in DOMAIN reqs : \E reply \in Replies : AiResolve(i, reply)
    \/ \E i \in DOMAIN reqs : \E err \in AiErrors : AiReject(i, err)
    \/ \E i \in DOMAIN reqs : TimerFire(i)
    \/ \E i \in DOMAIN reqs : DelayEnd(i)
    \/ \E i \in DOMAIN reqs : LateSettle(i)
    \/ \E i \in DOMAIN reqs : LateTimer(i)
    \/ Advance

SpecHandler == HandlerInit /\ [][HandlerNext]_vars

(* The timers of the runtime fire when they are due and the clock moves on; *)
(* nothing makes generateContent settle.                                    *)
HandlerFairness ==
    /\ WF_vars(Advance)
    /\ WF_vars(\E i \in DOMAIN reqs : TimerFire(i))
    /\ WF_vars(\E i \in DOMAIN reqs : DelayEnd(i))
    /\ WF_vars(\E i \in DOMAIN reqs : LateTimer(i))

SpecHandlerLive == HandlerInit /\ [][HandlerNext]_vars /\ HandlerFairness

----------------------------------------------------------------------------
(* Properties of the handlers, checked under SpecHandler                    *)

(* What a request needs besides a valid payload to get as far as the input  *)
(* validation of its handler and be answered by it.                         *)
ReachesValidation(r) ==
    /\ r.in.method = "POST"
    /\ r.in.body
    /\ ~Falsy(r.in.payload)
    /\ r.in.origin = "allowed"
    /\ r.in.ctype = "application/json"
    /\ env.apiKey
    /\ (variant = "limited" => r.admitted)

(* C8: in every handler iteration a POST request whose pdfBase64 fails the  *)
(* iteration's input validation is answered with status 400.                *)
H_InvalidPayloadIs400 ==
    \A i \in DOMAIN reqs :
        (/\ reqs[i].st = "done"
         /\ ReachesValidation(reqs[i])
         /\ Validate(variant, reqs[i].in.payload) # "ok")
        => reqs[i].status = 400

H_TimeoutAnsweredAtOnce ==
    \A i \in DOMAIN reqs :
        reqs[i].timedOutAt >= 0 =>
            /\ reqs[i].st = "done"
            /\ reqs[i].respondedAt = reqs[i].timedOutAt
            /\ reqs[i].status \in {504, 408}

(* The replies whose parsed JSON holds cvData and jobData, both objects. *)
BothKeysObjects == {"good", "poorSummary", "repairable"}

(* C11: in every handler iteration a 200 response to a POST is sent only if *)
(* the parsed model output holds the keys cvData and jobData, each of them  *)
(* an object; a reply that lacks one of them ends in an error response.     *)
H_OkOnlyWithBothKeys ==
    \A i \in DOMAIN reqs :
        (reqs[i].status = 200 /\ reqs[i].in.method = "POST")
            => reqs[i].reply \in BothKeysObjects

(* C12: every request whose handling has ended has received exactly one     *)
(* response, and no request ever receives more than one, whatever the order *)
(* in which replies, rejections and timers arrive.                          *)
H_ExactlyOneResponse ==
    \A i \in DOMAIN reqs :
        /\ reqs[i].responses <= 1
        /\ reqs[i].st \in {"done", "escaped"} => reqs[i].responses = 1

(* C13: in every handler iteration a request whose method is neither POST   *)
(* nor OPTIONS is answered with status 405, whatever its origin.            *)
H_OtherMethodIs405 ==
    \A i \in DOMAIN reqs :
        reqs[i].in.method \notin {"POST", "OPTIONS"} => reqs[i].status = 405

(* The messages that name the missing pdfBase64 field. *)
MissingFieldMessages ==
    {"Missing pdfBase64 in request body", "Missing required field: pdfBase64",
     "Missing pdfBase64"}

(* C14: in every handler iteration a POST request with a body whose         *)
(* pdfBase64 is absent or empty is answered with status 400 and a message   *)
(* that names the field, whether or not the API credential is configured.   *)
H_MissingFieldIs400 ==
    \A i \in DOMAIN reqs :
        (/\ reqs[i].in.method = "POST"
         /\ reqs[i].in.body
         /\ Falsy(reqs[i].in.payload))
        => /\ reqs[i].status = 400
           /\ reqs[i].body.message \in MissingFieldMessages

(* C15: in every handler iteration an OPTIONS request is answered with      *)
(* status 200 and no body, without a visit to the rate limiter or a model   *)
(* call, whatever its origin and the configuration.                         *)
H_OptionsIs200NoBody ==
    \A i \in DOMAIN reqs :
        reqs[i].in.method = "OPTIONS"
        => /\ reqs[i].status = 200
           /\ reqs[i].body = NoBody
           /\ reqs[i].calls = 0
           /\ ~reqs[i].admitted

(* C16: in the limited and the repair iteration, a request all of whose     *)
(* attempts failed with an overload signal of the provider is answered with *)
(* status 503.                                                              *)
H_OverloadIs503 ==
    \A i \in DOMAIN reqs :
        (/\ variant \in {"limited", "repair"}
         /\ reqs[i].st = "done"
         /\ reqs[i].calls > 0
         /\ reqs[i].status # 200
         /\ reqs[i].overloadOnly)
        => reqs[i].status = 503

(* The message strings written in the handlers and in their validators.     *)
SanitizedMessages ==
    { "Method not allowed", "Origin not allowed", "Request body is missing",
      "Unsupported media type",
      "Server configuration error: Missing API key.",
      "Invalid pdfBase64: must be a non-empty string",
      "Invalid pdfBase64: contains non-base64 characters",
      "PDF size exceeds 2MB limit.", "PDF size exceeds limit of 5MB",
      "AI service returned invalid data format.",
      "AI service returned incomplete data.",
      "Error processing the CV with the AI service.",
      "Request timed out after 60000ms. Try a smaller PDF.",
      "Service configuration error. Please contact administrator.",
      "Unable to process CV. An unexpected error occurred.",
      "AI service is temporarily busy. Please try again in 30 seconds.",
      "Request timed out. Please try a smaller PDF file.",
      "AI service returned invalid data format. Please try again.",
      "Unable to process CV. Please try again.",
      "Service configuration error.",
      "AI service is busy. Please try again in 30 seconds.",
      "AI generated poor quality content. Please try again.",
      "Processing took too long. Please try again.",
      "Access denied.", "Invalid request format.",
      "RateLimitWait", "TooManyRequests",
      "PDF validation failed: Invalid base64 format",
      "PDF validation failed: Invalid PDF file: Missing PDF header",
      "PDF validation failed: Invalid PDF file: Missing EOF marker",
      "PDF validation failed: File too large. Maximum size is 2MB.",
      "PDF validation failed: Empty PDF file" }
      \cup MissingFieldMessages

(* C17: without the development flag every error response body is exactly  *)
(* {message}, and the message is one of the strings written in the handler; *)
(* the message of an exception raised by a library or by the model client   *)
(* is never part of it.                                                     *)
H_ProductionBodyIsSanitized ==
    \A i \in DOMAIN reqs :
        (reqs[i].st = "done" /\ reqs[i].body.kind = "message")
        => /\ FieldsSent(reqs[i].body, FALSE) = {}
           /\ reqs[i].body.message \in SanitizedMessages

----------------------------------------------------------------------------
(* The input validators as functions of the payload: the checks of the      *)
(* first iteration, SecurityUtils.validateBase64 and                        *)
(* SecurityUtils.validatePDF, each applied to a payload string drawn from   *)
(* ValidatorInputs.                                                         *)

Validators == {"basic", "validateBase64", "validatePDF"}

(* The numbers of base64 characters: short ones, and the ones around the    *)
(* two ceilings (0.75 * 2796202 < 2 MB < 0.75 * 2796203, 2 MB + 1 = 0.75 *  *)
(* 2796204; the same around 5 MB).                                          *)
Lengths == {1, 400, 2796202, 2796203, 2796204, 6990506, 6990507, 6990508}

(* The payload strings: a payload too short to hold them has neither the    *)
(* PDF header nor the EOF marker.                                           *)
ValidatorInputs ==
    {Pdf(prefix, ws, bad, len, header, eof) :
        prefix \in BOOLEAN, ws \in BOOLEAN, bad \in BOOLEAN,
        len \in Lengths, header \in BOOLEAN, eof \in BOOLEAN}
      \ {p \in [typ : {"string"}, prefix : BOOLEAN, ws : BOOLEAN, bad : BOOLEAN,
                len : {1}, header : BOOLEAN, eof : BOOLEAN] : p.header \/ p.eof}

(* The size ceiling each validator is configured with. *)
CeilingOf(f) ==
    IF f = "validateBase64" THEN MaxPdfBytes("guarded") ELSE MaxPdfBytes("limited")

(* The verdict of validator f on payload p. *)
VerdictOf(f, p) ==
    CASE f = "basic" -> BasicValidate(p)
      [] f = "validateBase64" -> ValidateBase64("guarded", p)
      [] OTHER -> ValidatePDF(p)

ValidateInit ==
    /\ now = 0
    /\ rateLimitStore = EmptyStore
    /\ last = NoCall
    /\ winReqs = [k \in ClientKeys |-> 0]
    /\ blockedTill = [k \in ClientKeys |-> 0]
    /\ lastReqAt = [k \in ClientKeys |-> -1]
    /\ solo = [k \in ClientKeys |-> EmptyStore]
    /\ rejections = [k \in ClientKeys |-> {}]
    /\ variant = "limited"
    /\ env = [apiKey |-> TRUE, cors |-> TRUE]
    /\ reqs = <<>>
    /\ model = 0
    /\ \E p \in ValidatorInputs :
          pure = [payload |-> p, verdict |-> [f \in Validators |-> "pending"]]

(* Validator f is applied to the payload. *)
RunValidator(f) ==
    /\ pure.verdict[f] = "pending"
    /\ pure' = [pure EXCEPT !.verdict[f] = VerdictOf(f, pure.payload)]
    /\ UNCHANGED <<limiterVars, handlerVars>>

ValidateNext == \E f \in Validators : RunValidator(f)

SpecValidate == ValidateInit /\ [][ValidateNext]_vars

(* The number of characters that count for the estimate: those left after   *)
(* the data-URL prefix and the whitespace are taken away.                   *)
CountedLength(p) == p.len + (IF p.bad THEN 1 ELSE 0)

(* C18: a payload whose estimate, 0.75 times its non-whitespace characters, *)
(* is at least one byte over the validator's ceiling is rejected as too     *)
(* large and in no other way; a payload whose estimate is at or below the   *)
(* ceiling is never rejected as too large.                                  *)
V_SizeVerdictByEstimate ==
    \A f \in Validators :
        pure.verdict[f] # "pending" =>
            /\ 3 * CountedLength(pure.payload) >= 4 * (CeilingOf(f) + 1)
                  => pure.verdict[f] = "TooLarge"
            /\ 3 * CountedLength(pure.payload) <= 4 * CeilingOf(f)
                  => pure.verdict[f] # "TooLarge"

(* C19: a payload that holds a character outside the base64 alphabet after *)
(* its data-URL prefix and its whitespace are taken away is rejected as     *)
(* badly encoded, whatever its length.                                      *)
V_BadCharacterIsInvalidEncoding ==
    \A f \in Validators :
        (pure.verdict[f] # "pending" /\ pure.payload.bad)
            => pure.verdict[f] = "BadChars"

(* C20: validatePDF admits every payload of base64 characters that decodes, *)
(* is within the ceiling, starts with %PDF and contains %%EOF, with or      *)
(* without the data-URL prefix and with or without embedded whitespace.     *)
V_ValidPdfAdmitted ==
    (/\ pure.verdict["validatePDF"] # "pending"
     /\ ~pure.payload.bad
     /\ pure.payload.len % 4 # 1
     /\ pure.payload.header
     /\ pure.payload.eof
     /\ 3 * pure.payload.len <= 4 * CeilingOf("validatePDF"))
    => pure.verdict["validatePDF"] = "ok"

----------------------------------------------------------------------------
(* Texts.  A text is a sequence of tokens: a punctuation character, a       *)
(* whitespace character, the code fence or a maximal run of \w characters (a *)
(* word or a numeral).  The regular expressions of the normalisers test     *)
(* \w+, \s* and single punctuation characters, so they read a text token by *)
(* token.                                                                   *)

(* The code fence: three backquotes *)
Fence == "<fence>"

IsSpace(c) == c \in {" ", "\n"}

Punctuation == {"{", "}", "[", "]", ":", ",", "'", "\"", ".", Fence}

(* \w+ *)
IsWord(c) == ~IsSpace(c) /\ c \notin Punctuation

(* The numerals and literals JSON.parse accepts as bare values. *)
BareValues == {"30", "7", "true", "false", "null"}

(* The index of the first token at or after i that is not whitespace. *)
RECURSIVE SkipWs(_, _)
SkipWs(s, i) == IF i <= Len(s) /\ IsSpace(s[i]) THEN SkipWs(s, i + 1) ELSE i

(* The index of the last token at or before i that is not whitespace. *)
RECURSIVE SkipWsBack(_, _)
SkipWsBack(s, i) == IF i >= 1 /\ IsSpace(s[i]) THEN SkipWsBack(s, i - 1) ELSE i

(* String.prototype.trim *)
Trim(s) == SubSeq(s, SkipWs(s, 1), SkipWsBack(s, Len(s)))

(* indexOf(c, i) and lastIndexOf(c, i), 1-based; 0: not found *)
IndexFrom(s, c, i) ==
    LET found == {j \in i .. Len(s) : s[j] = c}
    IN IF found = {} THEN 0 ELSE CHOOSE j \in found : \A k \in found : j <= k

IndexOf(s, c) == IndexFrom(s, c, 1)

LastIndexFrom(s, c, i) ==
    LET found == {j \in 1 .. i : s[j] = c}
    IN IF found = {} THEN 0 ELSE CHOOSE j \in found : \A k \in found : j >= k

LastIndexOf(s, c) == LastIndexFrom(s, c, Len(s))

(* The concatenation of the pieces lo .. hi of a sequence of texts. *)
RECURSIVE Join(_, _, _)
Join(pieces, lo, hi) ==
    IF lo > hi THEN <<>>
    ELSE IF lo = hi THEN pieces[lo]
    ELSE Join(pieces, lo, (lo + hi) \div 2) \o Join(pieces, (lo + hi) \div 2 + 1, hi)

(* Does s hold the tokens of p from index i on? *)
HasAt(s, i, p) == i + Len(p) - 1 <= Len(s) /\ SubSeq(s, i, i + Len(p) - 1) = p

(* The words a case-insensitive pattern takes for 'json', 'Here', 'JSON' *)
JsonTags == {"json", "JSON", "Json"}

----------------------------------------------------------------------------
(* JSON.parse, for texts of objects, strings, numerals and literals: the    *)
(* result is ok with the parsed value, or not ok (a SyntaxError).  A value  *)
(* is written as its tokens without the whitespace between them, so two     *)
(* values are deep-equal when they are equal.                               *)

ParseFailure == [ok |-> FALSE, next |-> 0, out |-> <<>>]

(* The index of the quote that closes a string opened before i; 0 when the  *)
(* string is not closed or holds a line break.                              *)
RECURSIVE StringEnd(_, _)
StringEnd(s, i) ==
    IF i > Len(s) THEN 0
    ELSE IF s[i] = "\"" THEN i
    ELSE IF s[i] = "\n" THEN 0
    ELSE StringEnd(s, i + 1)

RECURSIVE ParseValue(_, _)
RECURSIVE ParseMembers(_, _, _, _)

ParseValue(s, from) ==
    LET i == SkipWs(s, from)
    IN IF i > Len(s) THEN ParseFailure
       ELSE IF s[i] = "{" THEN ParseMembers(s, i + 1, <<"{">>, TRUE)
       ELSE IF s[i] = "\""
            THEN LET e == StringEnd(s, i + 1)
                 IN IF e = 0 THEN ParseFailure
                    ELSE [ok |-> TRUE, next |-> e + 1, out |-> SubSeq(s, i, e)]
       ELSE IF s[i] \in BareValues THEN [ok |-> TRUE, next |-> i + 1, out |-> <<s[i]>>]
       ELSE ParseFailure

ParseMembers(s, from, acc, first) ==
    LET i == SkipWs(s, from)
    IN IF i > Len(s) THEN ParseFailure
       ELSE IF first /\ s[i] = "}"
            THEN [ok |-> TRUE, next |-> i + 1, out |-> acc \o <<"}">>]
       ELSE IF s[i] # "\"" THEN ParseFailure
       ELSE LET e == StringEnd(s, i + 1)
                c == SkipWs(s, e + 1)
            IN IF e = 0 \/ c > Len(s) THEN ParseFailure
               ELSE IF s[c] # ":" THEN ParseFailure
               ELSE LET v == ParseValue(s, c + 1)
                        d == SkipWs(s, v.next)
                        member == acc \o SubSeq(s, i, e) \o <<":">> \o v.out
                    IN IF ~v.ok \/ d > Len(s) THEN ParseFailure
                       ELSE IF s[d] = ","
                            THEN ParseMembers(s, d + 1, member \o <<",">>, FALSE)
                       ELSE IF s[d] = "}"
                            THEN [ok |-> TRUE, next |-> d + 1, out |-> member \o <<"}">>]
                       ELSE ParseFailure

JsonParse(s) ==
    LET v == ParseValue(s, 1)
    IN IF v.ok /\ SkipWs(s, v.next) > Len(s)
       THEN [ok |-> TRUE, value |-> v.out]
       ELSE [ok |-> FALSE, value |-> <<>>]

----------------------------------------------------------------------------
(* JsonUtils *)

(* A normaliser's result: the parsed value, or the message of its error. *)
Parsed(value) == [ok |-> TRUE, value |-> value, error |-> ""]

Thrown(message) == [ok |-> FALSE, value |-> <<>>, error |-> message]

(* .replace(/^<fence>json\s*/i, '') *)
StripOpeningFence(s) ==
    IF Len(s) >= 2 /\ s[1] = Fence /\ s[2] \in JsonTags
    THEN SubSeq(s, SkipWs(s, 3), Len(s))
    ELSE s

(* .replace(/\s*<fence>$/i, '') *)
StripClosingFence(s) ==
    IF Len(s) >= 1 /\ s[Len(s)] = Fence
    THEN SubSeq(s, 1, SkipWsBack(s, Len(s) - 1))
    ELSE s

(* The index after the run of ':' and whitespace that starts at i. *)
RECURSIVE SkipColonsAndWs(_, _)
SkipColonsAndWs(s, i) ==
    IF i <= Len(s) /\ (IsSpace(s[i]) \/ s[i] = ":") THEN SkipColonsAndWs(s, i + 1) ELSE i

(* .replace(/^Here( is|'s) the JSON[:\s]*/i, '') *)
StripLeadIn(s) ==
    IF HasAt(s, 1, <<"Here", " ", "is", " ", "the", " ", "JSON">>)
    THEN SubSeq(s, SkipColonsAndWs(s, 8), Len(s))
    ELSE IF HasAt(s, 1, <<"Here", "'", "s", " ", "the", " ", "JSON">>)
    THEN SubSeq(s, SkipColonsAndWs(s, 8), Len(s))
    ELSE s

(* JsonUtils.extractPureJson: ok with the extracted text in value *)
ExtractPureJson(text) ==
    IF text = <<>> THEN Thrown("Empty or invalid AI response")
    ELSE LET jsonString == Trim(StripLeadIn(StripClosingFence(StripOpeningFence(Trim(text)))))
             firstBrace == IndexOf(jsonString, "{")
             lastBrace == LastIndexOf(jsonString, "}")
         IN IF firstBrace = 0 \/ lastBrace = 0 \/ firstBrace >= lastBrace
            THEN Thrown("No valid JSON object found in AI response")
            ELSE Parsed(Trim(SubSeq(jsonString, firstBrace, lastBrace)))

(* .replace(/(\w+):/g, DQ $1 DQ ':'): what token i becomes.  A word is a  *)
(* maximal run, so the pattern matches exactly the words a colon follows.   *)
QuoteKeysAt(s, i) ==
    IF IsWord(s[i]) /\ i < Len(s) /\ s[i + 1] = ":" THEN <<"\"", s[i], "\"">> ELSE <<s[i]>>

QuoteKeys(s) == Join([i \in 1 .. Len(s) |-> QuoteKeysAt(s, i)], 1, Len(s))

(* .replace(/,(\s*[}\]])/g, '$1'): what token i becomes *)
DropTrailingCommasAt(s, i) ==
    IF s[i] = "," /\ SkipWs(s, i + 1) <= Len(s) /\ s[SkipWs(s, i + 1)] \in {"}", "]"}
    THEN <<>>
    ELSE <<s[i]>>

DropTrailingCommas(s) == Join([i \in 1 .. Len(s) |-> DropTrailingCommasAt(s, i)], 1, Len(s))

(* .replace(/'/g, DQ) with DQ the double quote *)
DoubleQuotes(s) == [i \in 1 .. Len(s) |-> IF s[i] = "'" THEN "\"" ELSE s[i]]

(* The fourth replace, of a single-quoted value after a colon by the same   *)
(* value in double quotes: its input comes from                             *)
(* DoubleQuotes and holds no single quote, so nothing matches.              *)
RequoteValues(s) == s

(* Does /:\s*(\w+)(\s*[,\}])/ match from token c on? *)
BareValueAt(s, c) ==
    LET j == SkipWs(s, c + 1)
        k == SkipWs(s, j + 1)
    IN /\ c >= 1
       /\ s[c] = ":"
       /\ j <= Len(s) /\ IsWord(s[j])
       /\ k <= Len(s) /\ s[k] \in {",", "}"}

(* .replace(/:\s*(\w+)(\s*[,\}])/g, ':' DQ $1 DQ $2): what token i becomes. *)
(* A match holds one colon, at its start, so no two matches overlap: the    *)
(* whitespace between the colon and the word goes, the word gets quotes.    *)
QuoteBareValuesAt(s, i) ==
    IF IsSpace(s[i]) /\ BareValueAt(s, SkipWsBack(s, i)) THEN <<>>
    ELSE IF IsWord(s[i]) /\ BareValueAt(s, SkipWsBack(s, i - 1)) THEN <<"\"", s[i], "\"">>
    ELSE <<s[i]>>

QuoteBareValues(s) == Join([i \in 1 .. Len(s) |-> QuoteBareValuesAt(s, i)], 1, Len(s))

(* .replace(/\n/g, ' ') *)
JoinLines(s) == [i \in 1 .. Len(s) |-> IF s[i] = "\n" THEN " " ELSE s[i]]

(* The repair pass of safeJsonParse *)
Repair(jsonString) ==
    Trim(JoinLines(QuoteBareValues(RequoteValues(DoubleQuotes(
        DropTrailingCommas(QuoteKeys(jsonString)))))))

(* A safeJsonParse that repairs before it parses. *)
SafeJsonParseRepairFirst(jsonString) ==
    LET repaired == JsonParse(Repair(jsonString))
    IN IF repaired.ok THEN Parsed(repaired.value) ELSE Thrown("JSON parse failed")

(* JsonUtils.safeJsonParse *)
SafeJsonParse(jsonString) ==
    LET strict == JsonParse(jsonString)
        repaired == JsonParse(Repair(jsonString))
    IN IF strict.ok THEN Parsed(strict.value)
       ELSE IF repaired.ok THEN Parsed(repaired.value)
       ELSE Thrown("JSON parse failed")

(* extractPureJson followed by safeJsonParse *)
Normalize(text) ==
    LET extracted == ExtractPureJson(text)
    IN IF extracted.ok THEN SafeJsonParse(extracted.value) ELSE extracted

----------------------------------------------------------------------------
(* The rate budget, the retry loop and the escaping exceptions, checked     *)
(* under SpecHandler                                                        *)

(* The request that arrives in a step. *)
Arrived == reqs'[Len(reqs')]

(* C25: in the rate-limited handler a request whose payload fails input     *)
(* validation consumes no rate budget: the client's entry (count, window    *)
(* start, blockedUntil) is after the request what it was before.            *)
H_InvalidPayloadKeepsBudget ==
    [][(/\ variant = "limited"
        /\ Len(reqs') = Len(reqs) + 1
        /\ Arrived.in.method = "POST"
        /\ Arrived.in.body
        /\ (Falsy(Arrived.in.payload) \/ Validate("limited", Arrived.in.payload) # "ok"))
       => EntryOf(rateLimitStore', ClientIP(Arrived.in.headers))
            = EntryOf(rateLimitStore, ClientIP(Arrived.in.headers))]_vars

(* C26: in the retrying handler a further call is made only after a        *)
(* transient failure (a rejection of generateContent or the timeout): when  *)
(* the attempt before ended in a reply that failed extraction, parsing or   *)
(* the quality check, no further call is made for the request.              *)
H_RetryOnlyAfterTransient ==
    [][\A i \in DOMAIN reqs :
          (reqs[i].calls > 0 /\ reqs'[i].calls > reqs[i].calls)
            => reqs[i].reply = "none"]_vars

(* C27: in the retrying handler each attempt issues exactly one call, a     *)
(* request makes at most MAX_RETRIES calls, and no call is issued once an   *)
(* attempt has succeeded or the response has been sent.                     *)
H_OneCallPerAttempt ==
    /\ [](\A i \in DOMAIN reqs :
            variant = "limited" =>
                /\ reqs[i].calls <= MAX_RETRIES
                /\ (reqs[i].st \in {"racing", "delay"} => reqs[i].calls = reqs[i].attempt))
    /\ [][\A i \in DOMAIN reqs :
            (variant = "limited" /\ reqs[i].st = "done")
              => (reqs'[i].calls = reqs[i].calls /\ reqs'[i].st = "done")]_vars

(* The second attempt of a request of the retrying handler has succeeded.   *)
H_SecondAttemptSucceeded ==
    \E i \in DOMAIN reqs :
        /\ variant = "limited"
        /\ reqs[i].st = "done"
        /\ reqs[i].status = 200
        /\ reqs[i].calls = MAX_RETRIES

(* C28: in every handler iteration a request for which generateContent was  *)
(* called is answered in the end, even if the call never settles.           *)
H_CalledRequestAnswered ==
    \A i \in 1 .. MaxRequests :
        (Len(reqs) >= i /\ reqs[i].calls > 0) ~> (Len(reqs) >= i /\ reqs[i].st = "done")

(* C29: in every handler iteration no exception escapes the handler: every  *)
(* request that has left the synchronous part of the handler without a call *)
(* pending has a response.                                                  *)
H_NoExceptionEscapes ==
    \A i \in DOMAIN reqs : reqs[i].st # "escaped"

----------------------------------------------------------------------------
(* The eviction pass and the blocked rejection, checked under SpecLimiter   *)

(* C24: the eviction pass never removes an entry with blockedUntil > now:   *)
(* an entry that is blocked at the time of a call is in the store, as it    *)
(* was, after the call.                                                     *)
RL_BlockedEntryNeverEvicted ==
    [][\A k \in DOMAIN rateLimitStore :
          rateLimitStore[k].blockedUntil > now'
            => (k \in DOMAIN rateLimitStore' /\ rateLimitStore'[k] = rateLimitStore[k])]_vars

(* C30: a request rejected because its client is blocked leaves the        *)
(* client's entry as it was: count, window start and blockedUntil are the   *)
(* same after the rejection as before it.                                   *)
RL_BlockedRejectionKeepsEntry ==
    last.outcome = "blocked" => last.after = last.before

(* A client is rejected as blocked a second time, at a later instant,       *)
(* while its block still runs.                                              *)
RL_BlockedTwice ==
    /\ last.outcome = "blocked"
    /\ last.ip # None
    /\ \E r \in rejections[last.ip] : r.at < last.at
    /\ last.after.blockedUntil > last.at
    /\ last.after.count > MAX_REQUESTS_PER_MINUTE

----------------------------------------------------------------------------
(* Reading a parsed value *)

(* The index at which the value of member key of the object that opens at   *)
(* index open of v starts; 0 when the object has no such member, or when    *)
(* there is no object at open.                                              *)
(* The key that token i of v opens, at depth 1 of the object read *)
IsKeyAt(v, i, depth, key) ==
    /\ depth = 1
    /\ v[i - 1] \in {"{", ","}
    /\ SubSeq(v, i + 1, StringEnd(v, i + 1) - 1) = <<key>>

(* The token to read after token i, and the depth there *)
AfterToken(v, i, depth) ==
    IF v[i] = "\"" THEN [next |-> StringEnd(v, i + 1) + 1, depth |-> depth]
    ELSE IF v[i] = "{" THEN [next |-> i + 1, depth |-> depth + 1]
    ELSE IF v[i] = "}" THEN [next |-> i + 1, depth |-> depth - 1]
    ELSE [next |-> i + 1, depth |-> depth]

RECURSIVE MemberFrom(_, _, _, _)
MemberFrom(v, i, depth, key) ==
    IF i > Len(v) \/ depth = 0 THEN 0
    ELSE IF v[i] = "\"" /\ IsKeyAt(v, i, depth, key) THEN StringEnd(v, i + 1) + 2
    ELSE MemberFrom(v, AfterToken(v, i, depth).next, AfterToken(v, i, depth).depth, key)

Member(v, open, key) ==
    IF open = 0 \/ open > Len(v) THEN 0
    ELSE IF v[open] # "{" THEN 0
    ELSE MemberFrom(v, open + 1, 1, key)

(* Is the value that starts at index i of v truthy?  (0: undefined) *)
Truthy(v, i) ==
    IF i = 0 THEN FALSE
    ELSE IF v[i] = "{" THEN TRUE
    ELSE IF v[i] = "\"" THEN v[i + 1] # "\""
    ELSE v[i] \notin {"false", "null", "0"}

(* The tokens of the string that starts at index i of v; empty when the     *)
(* value there is not a string (summary || '').                             *)
StringAt(v, i) ==
    IF i = 0 THEN <<>>
    ELSE IF v[i] # "\"" THEN <<>>
    ELSE SubSeq(v, i + 1, StringEnd(v, i + 1) - 1)

(* The number of characters of a token *)
TokenLength(c) ==
    CASE c \in Punctuation \/ IsSpace(c) -> 1
      [] c = "internationalization" -> 20
      [] c = "telecommunications" -> 18
      [] c = "Short" -> 5
      [] OTHER -> 4

RECURSIVE TextLength(_)
TextLength(str) == IF str = <<>> THEN 0 ELSE TokenLength(Head(str)) + TextLength(Tail(str))

(* summary.split('. ').length *)
RECURSIVE Sentences(_, _)
Sentences(str, i) ==
    IF i >= Len(str) THEN 1
    ELSE IF str[i] = "." /\ str[i + 1] = " " THEN 1 + Sentences(str, i + 2)
    ELSE Sentences(str, i + 1)

(* The garbagePatterns that are single words *)
GarbageWords == {"undefined", "null", "NaN", "test", "example", "Lantz"}

(* validateAIData of the rate-limited handler: the message it throws, or "" *)
ValidateAIData(v) ==
    LET info == Member(v, Member(v, 1, "cvData"), "personalInfo")
        summary == StringAt(v, Member(v, info, "summary"))
    IN IF \E i \in 1 .. Len(summary) : summary[i] \in GarbageWords
       THEN "AI quality check failed - poor summary generated"
       ELSE IF TextLength(summary) < 50 \/ Sentences(summary, 1) < 2
       THEN "AI quality check failed - summary too short"
       ELSE IF ~Truthy(v, Member(v, info, "fullName"))
       THEN "AI failed to extract basic information"
       ELSE ""

(* !parsedData.cvData || !parsedData.jobData *)
LacksRequiredFields(v) ==
    ~Truthy(v, Member(v, 1, "cvData")) \/ ~Truthy(v, Member(v, 1, "jobData"))

----------------------------------------------------------------------------
(* What each handler does with the text of the model's reply: the status it *)
(* answers, the data it sends with a 200, the error it throws otherwise.    *)

Sends(value) == [status |-> 200, value |-> value, error |-> ""]

Throws(v, message) == [status |-> CatchStatus(v, MkError(message)), value |-> <<>>,
                       error |-> message]

(* The index of the first line break at or after i that a fence follows. *)
ClosingFence(s, i) ==
    LET found == {j \in i .. Len(s) - 1 : s[j] = "\n" /\ s[j + 1] = Fence}
    IN IF found = {} THEN 0 ELSE CHOOSE j \in found : \A k \in found : j <= k

(* responseText.match(fenced json | fenced | everything): the first         *)
(* alternative that matches at the start of the text gives the string.      *)
BasicExtract(text) ==
    IF HasAt(text, 1, <<Fence, "json", "\n">>) /\ ClosingFence(text, 4) # 0
    THEN SubSeq(text, 4, ClosingFence(text, 4) - 1)
    ELSE IF HasAt(text, 1, <<Fence>>) /\ IndexFrom(text, Fence, 2) # 0
    THEN SubSeq(text, 2, IndexFrom(text, Fence, 2) - 1)
    ELSE text

BasicContinuation(text) ==
    LET jsonString == Trim(BasicExtract(text))
        parsed == JsonParse(jsonString)
    IN IF jsonString = <<>> \/ ~parsed.ok
       THEN Throws("basic", "AI service returned invalid data format.")
       ELSE IF LacksRequiredFields(parsed.value)
       THEN Throws("basic", "AI service returned incomplete data.")
       ELSE Sends(parsed.value)

(* SecurityUtils.extractJson: the fenced content when the text starts with  *)
(* a fence, the whole text otherwise.                                       *)
ExtractJson(text) ==
    LET body == IF HasAt(text, 2, <<"json">>) THEN 3 ELSE 2
        close == IndexFrom(text, Fence, body)
    IN IF HasAt(text, 1, <<Fence>>) /\ close # 0
       THEN SubSeq(text, SkipWs(text, body), SkipWsBack(text, close - 1))
       ELSE text

GuardedContinuation(text) ==
    LET jsonString == Trim(ExtractJson(text))
        parsed == JsonParse(jsonString)
    IN IF jsonString = <<>> THEN Throws("guarded", "AI response contained no parseable content")
       ELSE IF ~parsed.ok THEN Throws("guarded", "Unexpected token in JSON")
       ELSE IF LacksRequiredFields(parsed.value)
       THEN Throws("guarded", "AI response missing required fields: cvData or jobData")
       ELSE Sends(parsed.value)

(* .replace(/<fence>json\s*|\s*<fence>/g, ''): the tokens kept from token *)
(* i, and the token at which the scan goes on.                              *)
StripFencesAt(s, i) ==
    IF HasAt(s, i, <<Fence, "json">>) THEN [out |-> <<>>, next |-> SkipWs(s, i + 2)]
    ELSE IF SkipWs(s, i) <= Len(s) /\ s[SkipWs(s, i)] = Fence
    THEN [out |-> <<>>, next |-> SkipWs(s, i) + 1]
    ELSE [out |-> <<s[i]>>, next |-> i + 1]

RECURSIVE StripFences(_, _)
StripFences(s, i) ==
    IF i > Len(s) THEN <<>>
    ELSE StripFencesAt(s, i).out \o StripFences(s, StripFencesAt(s, i).next)

(* substring(start, end): the arguments are swapped when start > end *)
Substring(s, start, end) ==
    IF start <= end THEN SubSeq(s, start + 1, end) ELSE SubSeq(s, end + 1, start)

(* The inline extraction of the rate-limited handler *)
LimitedExtract(text) ==
    LET jsonString == StripFences(Trim(text), 1)
        firstBrace == IndexOf(jsonString, "{")
        lastBrace == LastIndexOf(jsonString, "}")
    IN IF firstBrace = 0 \/ lastBrace = 0
       THEN Thrown("No JSON object found in AI response")
       ELSE Parsed(Substring(jsonString, firstBrace - 1, lastBrace))

LimitedContinuation(text) ==
    LET extracted == LimitedExtract(text)
        parsed == JsonParse(extracted.value)
    IN IF ~extracted.ok THEN Throws("limited", extracted.error)
       ELSE IF ~parsed.ok THEN Throws("limited", "Unexpected token in JSON")
       ELSE IF ValidateAIData(parsed.value) # ""
       THEN Throws("limited", ValidateAIData(parsed.value))
       ELSE Sends(parsed.value)

(* The parsed data with {} for a missing or falsy cvData or jobData: only   *)
(* the case of an object that has neither is written out.                   *)
WithDefaults(v) ==
    IF v = <<"{", "}">>
    THEN <<"{", "\"", "cvData", "\"", ":", "{", "}", ",",
           "\"", "jobData", "\"", ":", "{", "}", "}">>
    ELSE v

RepairContinuation(text) ==
    LET parsed == Normalize(text)
    IN IF ~parsed.ok
       THEN Throws("repair", IF parsed.error = "JSON parse failed"
                             THEN "JSON parse failed: Unexpected token in JSON"
                             ELSE parsed.error)
       ELSE Sends(WithDefaults(parsed.value))

Continuation(v, text) ==
    CASE v = "basic" -> BasicContinuation(text)
      [] v \in {"guarded", "strict"} -> GuardedContinuation(text)
      [] v = "limited" -> LimitedContinuation(text)
      [] OTHER -> RepairContinuation(text)

----------------------------------------------------------------------------
(* The reply texts the normalizer and the handlers are run on *)

Q == "\""

GoodSummary ==
    <<"internationalization", ".", " ", "internationalization", " ", "telecommunications">>

(* {"cvData":{},"jobData":{}} *)
PlainObject ==
    <<"{", Q, "cvData", Q, ":", "{", "}", ",", Q, "jobData", Q, ":", "{", "}", "}">>

(* An object over two lines, with a full personalInfo *)
FullObject ==
    <<"{", Q, "cvData", Q, ":", " ", "{", Q, "personalInfo", Q, ":", "{",
      Q, "fullName", Q, ":", Q, "Alice", Q, ",",
      Q, "summary", Q, ":", Q>> \o GoodSummary \o <<Q, "}", "}", ",", "\n",
      Q, "jobData", Q, ":", "{", "}", "}">>

(* A summary of one word *)
ShortObject ==
    <<"{", Q, "cvData", Q, ":", "{", Q, "personalInfo", Q, ":", "{",
      Q, "fullName", Q, ":", Q, "Alice", Q, ",",
      Q, "summary", Q, ":", Q, "Short", Q, "}", "}", ",",
      Q, "jobData", Q, ":", "{", Q, "age", Q, ":", "30", "}", "}">>

(* A string value that holds a brace and a colon *)
BraceObject ==
    <<"{", Q, "cvData", Q, ":", "{", Q, "note", Q, ":", Q, "a", "}", ":", "b", Q, "}", ",",
      Q, "jobData", Q, ":", "{", "}", "}">>

Objects == {PlainObject, FullObject, ShortObject, BraceObject}

LeadingProse ==
    { <<>>,
      <<"Here", " ", "is", " ", "the", " ", "JSON", ":">>,
      <<"Sure", "!">>,
      <<"Use", " ", "{", "x", "}", ".">> }

TrailingProse ==
    { <<>>,
      <<"Done", ".">>,
      <<"Thanks", "!">>,
      <<"See", " ", "{", "y", "}", ".">> }

(* before, a json-tagged fence around obj, after *)
Fenced(before, obj, after) ==
    (IF before = <<>> THEN <<>> ELSE before \o <<"\n">>)
      \o <<Fence, "json", "\n">> \o obj \o <<"\n", Fence>>
      \o (IF after = <<>> THEN <<>> ELSE <<"\n">> \o after)

(* {name: 'Alice', age: 30,} *)
AliceText ==
    <<"{", "name", ":", " ", "'", "Alice", "'", ",", " ", "age", ":", " ", "30", ",", "}">>

(* {"name":"Alice","age":30} *)
AliceObject ==
    <<"{", Q, "name", Q, ":", Q, "Alice", Q, ",", Q, "age", Q, ":", "30", "}">>

(* Texts without a fence *)
RawTexts ==
    { AliceText,
      PlainObject,
      <<"{", "}">>,
      <<"No", " ", "data", ".">>,
      <<"}", " ", "{">>,
      ShortObject,
      <<"Only", " ", "{">>,
      <<"}", ".">>,
      <<"JSON", ":", " ">> \o PlainObject,
      <<"{", Q, "cvData", Q, ":", "}">> }

ReplyTexts ==
    { [text |-> Fenced(b, o, a), object |-> o, before |-> b, after |-> a] :
         b \in LeadingProse, o \in Objects, a \in TrailingProse }
      \cup { [text |-> t, object |-> <<>>, before |-> <<>>, after |-> <<>>] : t \in RawTexts }

(* The functions run on a reply text *)
Runs == {"normalize", "safeJsonParse", "basic", "guarded", "limited", "repair"}

NotRun == [done |-> FALSE, status |-> 0, value |-> <<>>, error |-> ""]

Ran(status, value, error) ==
    [done |-> TRUE, status |-> status, value |-> value, error |-> error]

(* The outcome of run f on text: status 200 for a value returned or sent.  *)
RunResult(f, text) ==
    CASE f = "normalize" ->
            LET r == Normalize(text)
            IN Ran(IF r.ok THEN 200 ELSE 500, r.value, r.error)
      [] f = "safeJsonParse" ->
            LET r == SafeJsonParse(text)
            IN Ran(IF r.ok THEN 200 ELSE 500, r.value, r.error)
      [] OTHER ->
            LET r == Continuation(f, text)
            IN Ran(r.status, r.value, r.error)

NormalizeInit ==
    /\ now = 0
    /\ rateLimitStore = EmptyStore
    /\ last = NoCall
    /\ winReqs = [k \in ClientKeys |-> 0]
    /\ blockedTill = [k \in ClientKeys |-> 0]
    /\ lastReqAt = [k \in ClientKeys |-> -1]
    /\ solo = [k \in ClientKeys |-> EmptyStore]
    /\ rejections = [k \in ClientKeys |-> {}]
    /\ variant = "repair"
    /\ env = [apiKey |-> TRUE, cors |-> TRUE]
    /\ reqs = <<>>
    /\ model = 0
    /\ \E t \in ReplyTexts : pure = [input |-> t, out |-> [f \in Runs |-> NotRun]]

(* Run f is applied to the reply text. *)
RunOnReply(f) ==
    /\ ~pure.out[f].done
    /\ pure' = [pure EXCEPT !.out[f] = RunResult(f, pure.input.text)]
    /\ UNCHANGED <<limiterVars, handlerVars>>

NormalizeNext == \E f \in Runs : RunOnReply(f)

SpecNormalize == NormalizeInit /\ [][NormalizeNext]_vars

(* The value JSON.parse gives for the text of an object *)
ValueOf(obj) == JsonParse(obj).value

(* C21: whenever an object with cvData and jobData stands in a json-tagged  *)
(* fence with any prose before and after it, extractPureJson followed by    *)
(* safeJsonParse returns an object deep-equal to it.                        *)
N_FencedObjectRoundTrips ==
    (pure.input.object # <<>> /\ pure.out["normalize"].done)
        => /\ pure.out["normalize"].status = 200
           /\ pure.out["normalize"].value = ValueOf(pure.input.object)

(* C22: safeJsonParse of {name: 'Alice', age: 30,} returns                  *)
(* {"name":"Alice","age":30}: the bare number stays a number.               *)
N_RepairKeepsNumber ==
    (pure.input.text = AliceText /\ pure.out["safeJsonParse"].done)
        => /\ pure.out["safeJsonParse"].status = 200
           /\ pure.out["safeJsonParse"].value = AliceObject

(* C23: in every handler, a reply of a preamble followed by a fence around  *)
(* valid JSON with cvData and jobData objects is answered with 200 and a    *)
(* body deep-equal to the embedded object.                                  *)
N_FencedReplyIs200 ==
    \A f \in {"basic", "guarded", "limited", "repair"} :
        (pure.input.object # <<>> /\ pure.input.before # <<>> /\ pure.out[f].done)
            => /\ pure.out[f].status = 200
               /\ pure.out[f].value = ValueOf(pure.input.object)

----------------------------------------------------------------------------
(* One key's entry under the requests of another key, checked under         *)
(* SpecLimiter                                                              *)

(* C31: a call of applyRateLimit for one client key never adds, changes or  *)
(* removes the entry of a different key.                                    *)
RL_OtherKeysUntouched ==
    [][\A k \in ClientKeys :
          (rateLimitStore' # rateLimitStore /\ k # last'.ip)
            => EntryOf(rateLimitStore', k) = EntryOf(rateLimitStore, k)]_vars

(* C31, as the code has it: a call of applyRateLimit for one key leaves the *)
(* entry of every other key as it was, or removes it in the eviction pass   *)
(* because its window start is more than WINDOW_MS old; it never adds or    *)
(* changes the entry of another key.                                        *)
RL_OtherKeysOnlyEvicted ==
    [][\A k \in ClientKeys :
          (rateLimitStore' # rateLimitStore /\ k # last'.ip)
            => \/ EntryOf(rateLimitStore', k) = EntryOf(rateLimitStore, k)
               \/ /\ k \in DOMAIN rateLimitStore
                  /\ k \notin DOMAIN rateLimitStore'
                  /\ rateLimitStore[k].timestamp < now - WINDOW_MS]_vars

(* The request of one key has just evicted the entry of another key. *)
RL_OtherKeyEvicted ==
    /\ Called
    /\ last.at = now
    /\ \E k \in ClientKeys :
          /\ k # last.ip
          /\ lastReqAt[k] >= 0
          /\ lastReqAt[k] < now - WINDOW_MS
          /\ k \notin DOMAIN rateLimitStore

----------------------------------------------------------------------------
(* The data-URL prefix, checked under SpecValidate                          *)

(* C32: in every handler iteration a payload with the data-URL prefix is    *)
(* accepted exactly when the same payload without the prefix is accepted.   *)
V_PrefixedAcceptedAsUnprefixed ==
    \A f \in Validators :
        (pure.payload.prefix /\ pure.verdict[f] # "pending")
            => ((pure.verdict[f] = "ok")
                  <=> (VerdictOf(f, [pure.payload EXCEPT !.prefix = FALSE]) = "ok"))

----------------------------------------------------------------------------
(* Texts without an object and the repair pass, checked under SpecNormalize *)

(* The text holds no '{', holds no '}', or its last '}' stands before its   *)
(* first '{'.  Stripping fences and lead-in takes no brace away, so this is *)
(* the same before and after it.                                            *)
NoObjectIn(text) ==
    \/ IndexOf(text, "{") = 0
    \/ LastIndexOf(text, "}") = 0
    \/ LastIndexOf(text, "}") < IndexOf(text, "{")

(* C33: for a text without a '{', without a '}' or with its last '}' before *)
(* its first '{', extractPureJson and the inline extraction of the retrying *)
(* handler both fail with their no-JSON-found error, and nothing is parsed. *)
N_NoObjectIsNoJsonFound ==
    NoObjectIn(pure.input.text) =>
        /\ pure.out["normalize"].done =>
              pure.out["normalize"].error = "No valid JSON object found in AI response"
        /\ pure.out["limited"].done =>
              pure.out["limited"].error = "No JSON object found in AI response"

(* C34: safeJsonParse repairs only after the strict parse has failed: for a *)
(* strictly valid text its result is the strict parse of the text, and for  *)
(* a text that is invalid even after the repair it throws a parse error and *)
(* returns no value.                                                        *)
N_RepairOnlyAfterStrictFailure ==
    pure.out["safeJsonParse"].done =>
        /\ JsonParse(pure.input.text).ok =>
              /\ pure.out["safeJsonParse"].status = 200
              /\ pure.out["safeJsonParse"].value = JsonParse(pure.input.text).value
        /\ (~JsonParse(pure.input.text).ok /\ ~JsonParse(Repair(pure.input.text)).ok) =>
              /\ pure.out["safeJsonParse"].status = 500
              /\ pure.out["safeJsonParse"].error = "JSON parse failed"
              /\ pure.out["safeJsonParse"].value = <<>>

(* safeJsonParse has returned a strictly valid text that holds a bare       *)
(* number, which the repair pass would have turned into a string.           *)
N_StrictTextParsed ==
    /\ pure.out["safeJsonParse"].done
    /\ pure.input.text = ShortObject
    /\ JsonParse(pure.input.text).ok
    /\ JsonParse(Repair(pure.input.text)).ok
    /\ JsonParse(Repair(pure.input.text)).value # JsonParse(pure.input.text).value

----------------------------------------------------------------------------
(* Concurrent requests of the rate-limited handler in one process: they     *)
(* share rateLimitStore and the module-level genAI and model.  A handler    *)
(* runs until its next await, so the whole of applyRateLimit, which has no  *)
(* await, is one step; the other handlers run while this one waits for      *)
(* generateContent, for its timer or for its retry delay.                   *)

(* The most requests one process handles in a run. *)
MaxShared == 4

(* The most of them that reach generateContent; the others are answered     *)
(* before the first await.                                                  *)
MaxSuspended == 2

(* The latest time, in ms, at which a request reaches the shared process. *)
LastShared == 30000

(* A PDF without the %PDF header: validatePDF refuses it after the limiter  *)
(* has counted the request.                                                 *)
HeaderlessPdf == Pdf(FALSE, FALSE, FALSE, 400, FALSE, TRUE)

(* The requests of the shared process: a client with a forwarded address    *)
(* sends a valid or a refused PDF, a client without any address header a    *)
(* refused one.                                                             *)
SharedInputs ==
    {GoodInput,
     [GoodInput EXCEPT !.payload = HeaderlessPdf],
     [GoodInput EXCEPT !.payload = HeaderlessPdf, !.headers = [xff |-> None, xri |-> None]]}

Calling == {i \in DOMAIN reqs : reqs[i].calls > 0}

SharedReplies == {"good"}

SharedErrors == {MkError("fetch failed")}

SharedInit == LimiterInit

(* The upstream service of the shared process settles a call before the     *)
(* clock moves on, or not before the timer of the race.                     *)
Prompt(i) == now = reqs[i].callAt

(* A request of the client arrives; the handler runs up to the first await *)
(* or to its response.  winReqs counts the requests of the key since the    *)
(* start of the window its entry holds.                                     *)
Arrive(in) ==
    LET ip == ClientIP(in.headers)
        res == Prefix(variant, in, env, rateLimitStore, now)
        before == EntryOf(rateLimitStore, ip)
        after == EntryOf(res.store, ip)
        newWindow == after.timestamp = now /\ before.timestamp # now
        n == IF newWindow THEN 1 ELSE winReqs[ip] + 1
    IN /\ Len(reqs) < MaxShared
       /\ now <= LastShared
       /\ (res.status = 0 => Cardinality(Calling) < MaxSuspended)
       /\ reqs' = Append(reqs, NewRequest(in, res, now))
       /\ rateLimitStore' = res.store
       /\ model' = IF AssignsModel(variant, in, env, res) THEN Len(reqs) + 1 ELSE model
       /\ winReqs' = [winReqs EXCEPT ![ip] = n]
       /\ last' = [NoCall EXCEPT !.ip = ip, !.at = now,
                                 !.outcome = IF res.admitted THEN "admitted" ELSE "rejected",
                                 !.status = res.status,
                                 !.before = before, !.after = after, !.n = n]
       /\ UNCHANGED <<now, variant, env, blockedTill, lastReqAt, solo, rejections, pure>>

SharedNext ==
    \/ \E in \in SharedInputs : Arrive(in)
    \/ \E i \in DOMAIN reqs : \E reply \in SharedReplies : Prompt(i) /\ AiResolve(i, reply)
    \/ \E i \in DOMAIN reqs : \E err \in SharedErrors : Prompt(i) /\ AiReject(i, err)
    \/ \E i \in DOMAIN reqs : TimerFire(i)
    \/ \E i \in DOMAIN reqs : DelayEnd(i)
    \/ \E i \in DOMAIN reqs : LateSettle(i)
    \/ \E i \in DOMAIN reqs : LateTimer(i)
    \/ Advance

SpecShared == SharedInit /\ [][SharedNext]_vars

(* A request of the shared process is waiting: for generateContent or for   *)
(* its retry delay.                                                         *)
Suspended(i) == reqs[i].st \in {"racing", "delay"}

(* C35: under every interleaving of the requests sharing the store, a       *)
(* request is admitted only as one of the first MAX_REQUESTS_PER_MINUTE of  *)
(* its key's window, and no update is lost: an entry counts every request   *)
(* of its window up to the one that exceeded the ceiling.                   *)
S_SharedStoreCountsEveryRequest ==
    /\ (last.outcome = "admitted" => last.n <= MAX_REQUESTS_PER_MINUTE)
    /\ \A k \in DOMAIN rateLimitStore :
          rateLimitStore[k].count =
             IF winReqs[k] <= MAX_REQUESTS_PER_MINUTE THEN winReqs[k]
             ELSE MAX_REQUESTS_PER_MINUTE + 1

(* The ceiling is exceeded while earlier requests of the same key are       *)
(* still suspended at their awaits.                                         *)
S_CeilingExceededWhileOthersWait ==
    /\ last.outcome = "rejected" /\ last.n = MAX_REQUESTS_PER_MINUTE + 1
    /\ \E i, j \in DOMAIN reqs :
          /\ i # j /\ Suspended(i) /\ Suspended(j)
          /\ reqs[i].admitted /\ ClientIP(reqs[i].in.headers) = last.ip
          /\ reqs[j].admitted /\ ClientIP(reqs[j].in.headers) = last.ip

(* C39: every call of generateContent made for a request, the call of a     *)
(* retry attempt included, is made on the instance this request assigned to *)
(* the module-level variable model.                                         *)
S_CallUsesOwnModel ==
    [][\A i \in DOMAIN reqs' :
          (IF i \in DOMAIN reqs THEN reqs'[i].calls > reqs[i].calls ELSE reqs'[i].calls > 0)
              => model' = i]_vars


(* C36: every stored entry has a count from 1 to the ceiling plus one; its  *)
(* blockedUntil is set only at that last count, and then it is the time of  *)
(* the request that exceeded the ceiling plus BLOCK_MS.                     *)
RL_EntryShape ==
    /\ \A k \in DOMAIN rateLimitStore :
          LET e == rateLimitStore[k]
          IN /\ 1 <= e.count /\ e.count <= MAX_REQUESTS_PER_MINUTE + 1
             /\ e.blockedUntil # 0 =>
                   e.count = MAX_REQUESTS_PER_MINUTE + 1 /\ e.blockedUntil = blockedTill[k]
             /\ e.count = MAX_REQUESTS_PER_MINUTE + 1 => e.blockedUntil # 0
    /\ (Called /\ last.outcome = "exceeded")
          => /\ last.after.blockedUntil = last.at + BLOCK_MS
             /\ blockedTill[last.ip] = last.at + BLOCK_MS

(* A blocked entry beside an entry that is still counting, after a request  *)
(* the block has rejected.                                                  *)
RL_BlockedAndCountingEntries ==
    /\ Called /\ last.outcome = "blocked"
    /\ \E k \in DOMAIN rateLimitStore :
          rateLimitStore[k].count = MAX_REQUESTS_PER_MINUTE + 1 /\ rateLimitStore[k].blockedUntil > now
    /\ \E k \in DOMAIN rateLimitStore :
          rateLimitStore[k].count = 2 /\ rateLimitStore[k].blockedUntil = 0

(* C37: in the rate-limited handler the store changes only in the step in   *)
(* which a request arrives, and the arrival of an admitted request moves    *)
(* the count of its client by one (to 1 when the window starts); attempts,  *)
(* retry delays and timers leave the store as it is.                        *)
S_StoreWrittenOnlyAtAdmission ==
    [][/\ Len(reqs') = Len(reqs) => rateLimitStore' = rateLimitStore
       /\ Len(reqs') > Len(reqs) =>
             LET r == reqs'[Len(reqs')]
                 k == ClientIP(r.in.headers)
             IN r.admitted =>
                   /\ EntryOf(rateLimitStore', k).count
                         \in {1, EntryOf(rateLimitStore, k).count + 1}
                   /\ \A j \in ClientKeys \ {k} :
                         EntryOf(rateLimitStore', j).count \in {0, EntryOf(rateLimitStore, j).count}]_vars

(* An admitted request has gone through a timeout, a retry delay and a      *)
(* second attempt, and its client's entry still counts one request.         *)
S_RetriedRequestCountedOnce ==
    /\ Len(reqs) = 1
    /\ reqs[1].admitted /\ reqs[1].st = "done" /\ reqs[1].calls = 2
    /\ reqs[1].timedOutAt # -1
    /\ rateLimitStore[ClientIP(reqs[1].in.headers)].count = 1

(* The errors the step that ends the last attempt of request i can have     *)
(* thrown: the timeout when the timer has won the race, the error the reply *)
(* leads to when generateContent has resolved, a rejection otherwise.       *)
FinalErrors(i) ==
    IF reqs'[i].abandoned > reqs[i].abandoned THEN {TimeoutError(variant)}
    ELSE IF reqs'[i].reply # "none" THEN {ReplyError(variant, reqs'[i].reply)}
    ELSE AiErrors

============================================================================
